---- MODULE Spec2Model ----
(***************************************************************************)
(* Feedback-driven adaptation, reinforcement update, training and model    *)
(* comparison of the spam-classification backend                           *)
(* (backend/app/services/ml_service.py, backend/app/main.py,               *)
(* backend/app/api/v1/endpoints/feedback.py).                              *)
(*                                                                         *)
(* Numbers.  Python floats are modelled in fixed point:                    *)
(*   spam_sensitivity        in tenths        (0.5 is 5, the step 0.1 is 1)*)
(*   rewards                 as integers      (+1.0 is 1, -1.0 is -1)      *)
(*   feature weights         in millionths    (0.01 is 10000)              *)
(*   F1 scores               in thousandths   (0.920 is 920)               *)
(* Texts are sequences of one-character strings.                           *)
(***************************************************************************)
EXTENDS Integers, Sequences, FiniteSets, TLC

VARIABLES
    \* MLService (ml_service.py:47-79)
    feedback_buffer,     \* self.feedback_buffer: sequence of feedback samples
    user_preferences,    \* self.user_preferences: user id -> preference record
    model_version,       \* self.model_version: base version followed by its suffixes
    rl_memory,           \* self.rl_memory: experience replay buffer
    rl_q_keys,           \* keys of self.rl_q_table (the states that have Q-values)
    rl_q_table,          \* self.rl_q_table: state key -> Q-values of the two labels
    rl_policy_network,   \* self.rl_policy_network: "None", "initial" or "updated"
    rl_learning_rate,    \* self.rl_learning_rate: how often it was raised by 5%
    background_tasks,    \* FastAPI background tasks not yet run
    models,              \* self.models: model key -> the fitted model
    \* files
    learning_disk,       \* data/ml_learning/learning_data.json
    training_results,    \* data/ml_training/training_results.json
    feedback_file,       \* data/user_feedback.json
    \* module state of feedback.py and main.py
    FEEDBACK_STORAGE,        \* feedback.py: FEEDBACK_STORAGE
    user_feedback_storage,   \* main.py: user_feedback_storage
    app_models,              \* main.py: models
    data_loaded,             \* main.py: data_loaded
    training_status,         \* main.py: training_status
    threads,                 \* main.py: the background training threads
    \* environment
    SKLEARN_AVAILABLE,   \* ml_service.py:17-37, fixed when the module is imported
    dataset,             \* where spambase.data is: "missing", "local", "docker"
    now,                 \* the clock, in steps of DaysPerTick days
    \* history
    ret,                 \* what the last operation returned to its caller
    feedback_log,        \* [applied, durable]: the events that made the
                         \* preference records in memory, and how many of
                         \* them the learning-data file reflects
    events,              \* number of requests received
    inserted,            \* number of experiences ever appended to rl_memory
    runs                 \* number of training runs started

vars == <<feedback_buffer, user_preferences, model_version, rl_memory, rl_q_keys,
          rl_q_table, rl_policy_network, rl_learning_rate, background_tasks,
          models, learning_disk, training_results, feedback_file,
          FEEDBACK_STORAGE, user_feedback_storage, app_models, data_loaded,
          training_status, threads, SKLEARN_AVAILABLE, dataset, now,
          ret, feedback_log, events, inserted, runs>>

mlVars    == <<feedback_buffer, user_preferences, learning_disk, feedback_log>>
rlVars    == <<rl_memory, rl_q_keys, rl_q_table, rl_policy_network,
               rl_learning_rate, background_tasks, inserted>>
trainVars == <<models, training_results, app_models, data_loaded, training_status,
               threads, SKLEARN_AVAILABLE, dataset, now, runs>>
httpVars  == <<FEEDBACK_STORAGE, user_feedback_storage, feedback_file>>

-----------------------------------------------------------------------------
(* Bounds of the model *)

MaxEvents == 3        \* feedback events handed to the service in one behaviour
MaxSubmits == 2       \* requests to the feedback endpoints in one behaviour
MaxRLEvents == 3      \* RL optimization calls in one behaviour
MaxTicks    == 2      \* clock steps in one behaviour
MaxRequests == 2      \* training requests in one behaviour

-----------------------------------------------------------------------------
(* Small helpers *)

Min(a, b) == IF a < b THEN a ELSE b
Max(a, b) == IF a > b THEN a ELSE b
Abs(a)    == IF a < 0 THEN -a ELSE a

RECURSIVE SumSeq(_)
SumSeq(s) == IF s = <<>> THEN 0 ELSE Head(s) + SumSeq(Tail(s))

\* s[-n:] of Python
LastN(s, n) == IF Len(s) <= n THEN s ELSE SubSeq(s, Len(s) - n + 1, Len(s))

Users   == {"u1", "u2"}
Classes == {"spam", "ham"}
Rewards == {1, -1}

-----------------------------------------------------------------------------
(* Feature extraction: MLService._extract_features *)

UpperChars == {"H", "F", "W"}
LowerOf(c) == CASE c = "H" -> "h" [] c = "F" -> "f" [] c = "W" -> "w" [] OTHER -> c
Lowered(text) == [i \in 1..Len(text) |-> LowerOf(text[i])]

\* word in text (Python's substring test)
Contains(text, word) ==
    \E i \in 0..(Len(text) - Len(word)) :
        \A j \in 1..Len(word) : text[i + j] = word[j]

CountChar(text, c) == Cardinality({i \in 1..Len(text) : text[i] = c})

\* len(text.split()): maximal runs of non-blank characters
WordCount(text) ==
    Cardinality({i \in 1..Len(text) :
                    text[i] # " " /\ (i = 1 \/ text[i - 1] = " ")})

MoneyWords == { <<"m","o","n","e","y">>, <<"f","r","e","e">>, <<"w","i","n">>,
                <<"p","r","i","z","e">>, <<"o","f","f","e","r">> }
UrgentWords == { <<"u","r","g","e","n","t">>,
                 <<"i","m","m","e","d","i","a","t","e">>,
                 <<"a","c","t"," ","n","o","w">>,
                 <<"l","i","m","i","t","e","d"," ","t","i","m","e">> }

FeatureNames == {"length", "word_count", "uppercase_ratio", "exclamation_count",
                 "question_count", "url_count", "email_count",
                 "has_money_words", "has_urgent_words"}

\* Every feature as the pair <<numerator, denominator>> of its value; the
\* texts of the model hold no "@" and no "://", so the two pattern counts are 0.
_extract_features(text) ==
    [ length            |-> <<Len(text), 1>>,
      word_count        |-> <<WordCount(text), 1>>,
      uppercase_ratio   |-> <<Cardinality({i \in 1..Len(text) : text[i] \in UpperChars}),
                              Max(Len(text), 1)>>,
      exclamation_count |-> <<CountChar(text, "!"), 1>>,
      question_count    |-> <<CountChar(text, "?"), 1>>,
      url_count         |-> <<0, 1>>,
      email_count       |-> <<0, 1>>,
      has_money_words   |-> <<IF \E w \in MoneyWords : Contains(Lowered(text), w)
                              THEN 1 ELSE 0, 1>>,
      has_urgent_words  |-> <<IF \E w \in UrgentWords : Contains(Lowered(text), w)
                              THEN 1 ELSE 0, 1>> ]

TextHi   == <<"H", "i">>
TextFree == <<"F", "r", "e", "e", " ", "w", "i", "n", "!">>
Emails   == {TextHi, TextFree}

\* the text of the feedback events of a behaviour (TextHi is the text of the
\* events of the earlier process, see PriorCorrections)
EventTexts == {TextFree}

\* the feature vector of every text of the model, computed once
FeaturesOf == [text \in Emails |-> _extract_features(text)]

-----------------------------------------------------------------------------
(* Program constants of MLService.__init__ *)

adaptation_threshold == 3      \* self.adaptation_threshold
learning_rate        == 10000  \* self.learning_rate = 0.01, in millionths
DefaultSensitivity   == 5      \* "spam_sensitivity": 0.5, in tenths
SensitivityStep      == 1      \* the 0.1 of the two adjustments, in tenths
SensitivityMax       == 10     \* min(1.0, ...)
SensitivityMin       == 0      \* max(0.0, ...)
RecentWindow         == 10     \* self.feedback_buffer[-10:]

InitialVersion == << [suffix |-> "1.0.0-dev", n |-> 0] >>

EmptyMap == [x \in {} |-> 0]

-----------------------------------------------------------------------------
(* MLService.apply_feedback_learning and what it calls *)

\* the dictionary appended to the feedback buffer.  Its "features" entry is
\* FeaturesOf[email_text] and is read from there; confidence and timestamp
\* are stored and never read, and are left out.
FeedbackSample(text, predicted_class, correct_class, reward, user_id) ==
    [ email_text      |-> text,
      predicted_class |-> predicted_class,
      correct_class   |-> correct_class,
      reward          |-> reward,
      user_id         |-> user_id ]

NewUserPreferences ==
    [ feedback_count      |-> 0,
      correct_predictions |-> 0,
      spam_sensitivity    |-> DefaultSensitivity,
      feature_weights     |-> EmptyMap ]

\* lines 305-312
AdjustSensitivityUnclamped(s, predicted_class, correct_class) ==
    IF predicted_class # correct_class
    THEN IF correct_class = "spam" /\ predicted_class = "ham"
         THEN s + SensitivityStep
         ELSE IF correct_class = "ham" /\ predicted_class = "spam"
              THEN s - SensitivityStep
              ELSE s
    ELSE s

AdjustSensitivityReversed(s, predicted_class, correct_class) ==
    IF predicted_class # correct_class
    THEN IF correct_class = "spam" /\ predicted_class = "ham"
         THEN Max(SensitivityMin, s - SensitivityStep)
         ELSE IF correct_class = "ham" /\ predicted_class = "spam"
              THEN Min(SensitivityMax, s + SensitivityStep)
              ELSE s
    ELSE s

AdjustSensitivity(s, predicted_class, correct_class) ==
    IF predicted_class # correct_class
    THEN IF correct_class = "spam" /\ predicted_class = "ham"
         THEN Min(SensitivityMax, s + SensitivityStep)
         ELSE IF correct_class = "ham" /\ predicted_class = "spam"
              THEN Max(SensitivityMin, s - SensitivityStep)
              ELSE s
    ELSE s

\* lines 314-323: learning_rate * reward * feature_value for a present feature
WeightAdjustment(reward, value) ==
    IF value[1] > 0
    THEN reward * ((learning_rate * value[1]) \div value[2])
    ELSE 0

UpdateFeatureWeights(weights, features, reward) ==
    [ f \in (DOMAIN weights) \cup FeatureNames |->
        (IF f \in DOMAIN weights THEN weights[f] ELSE 0)
        + (IF f \in FeatureNames THEN WeightAdjustment(reward, features[f]) ELSE 0) ]

UpdatedPreferencesAlwaysCorrect(prefs, text, predicted_class, correct_class, reward, user_id) ==
    LET old == IF user_id \in DOMAIN prefs THEN prefs[user_id] ELSE NewUserPreferences
    IN  [ feedback_count      |-> old.feedback_count + 1,
          correct_predictions |-> old.correct_predictions + 1,
          spam_sensitivity    |-> AdjustSensitivity(old.spam_sensitivity,
                                                    predicted_class, correct_class),
          feature_weights     |-> UpdateFeatureWeights(old.feature_weights,
                                                       FeaturesOf[text], reward) ]

\* lines 290-323: the preference record of user_id after the event
UpdatedPreferences(prefs, text, predicted_class, correct_class, reward, user_id) ==
    LET old == IF user_id \in DOMAIN prefs THEN prefs[user_id] ELSE NewUserPreferences
    IN  [ feedback_count      |-> old.feedback_count + 1,
          correct_predictions |-> old.correct_predictions + (IF reward > 0 THEN 1 ELSE 0),
          spam_sensitivity    |-> AdjustSensitivity(old.spam_sensitivity,
                                                    predicted_class, correct_class),
          feature_weights     |-> UpdateFeatureWeights(old.feature_weights,
                                                       FeaturesOf[text], reward) ]

SetPreferencesShared(prefs, user_id, rec) ==
    [ u \in (DOMAIN prefs) \cup {user_id} |->
        IF u = user_id THEN rec
        ELSE [prefs[u] EXCEPT !.spam_sensitivity = rec.spam_sensitivity] ]

SetPreferences(prefs, user_id, rec) ==
    [ u \in (DOMAIN prefs) \cup {user_id} |-> IF u = user_id THEN rec ELSE prefs[u] ]

\* _adapt_model_weights averaging the whole buffer instead of its last ten
_adapt_model_weights_whole_buffer(buffer) ==
    /\ buffer # <<>>
    /\ SumSeq([i \in 1..Len(buffer) |-> buffer[i].reward]) < 0
    /\ \E i \in 1..Len(buffer) : buffer[i].reward < 0

\* MLService._adapt_model_weights: TRUE iff the model version is re-tagged
_adapt_model_weights(buffer) ==
    /\ buffer # <<>>
    /\ SumSeq([i \in 1..Len(LastN(buffer, RecentWindow)) |->
                  LastN(buffer, RecentWindow)[i].reward]) < 0
    /\ \E i \in 1..Len(buffer) : buffer[i].reward < 0

AdaptedVersion(version, buffer) ==
    Append(version, [suffix |-> "adapted", n |-> Len(buffer)])

\* lines 329-338: the buffer that apply_feedback_learning leaves behind
BufferAfterAdaptation(buffer, model_updated) ==
    IF model_updated THEN <<>> ELSE buffer

\* MLService._save_learning_data: the whole state is written over the file;
\* a write that raises ("fail") is logged and leaves the file as it was
SaveOutcomes == {"ok", "fail"}

NoLearningFile == [ status |-> "absent", feedback_buffer |-> <<>>,
                    user_preferences |-> EmptyMap, model_version |-> <<>> ]

_save_learning_data(disk, outcome, buffer, prefs, version) ==
    IF outcome = "ok"
    THEN [ status |-> "ok", feedback_buffer |-> buffer,
           user_preferences |-> prefs, model_version |-> version ]
    ELSE disk

\* MLService._load_learning_data: what start-up restores from the file (the
\* model version is written but never read back); a missing or unreadable
\* file leaves the fresh state
_load_learning_data(disk) ==
    IF disk.status = "ok"
    THEN [ feedback_buffer  |-> disk.feedback_buffer,
           user_preferences |-> disk.user_preferences,
           model_version    |-> InitialVersion ]
    ELSE [ feedback_buffer  |-> <<>>,
           user_preferences |-> EmptyMap,
           model_version    |-> InitialVersion ]

\* apply_feedback_learning on the service state st = [feedback_buffer,
\* user_preferences, model_version]: the state it leaves, with the
\* model_updated flag of its result
apply_feedback_learning(st, text, predicted_class, correct_class, reward, user_id) ==
    LET sample  == FeedbackSample(text, predicted_class, correct_class, reward, user_id)
        buffer1 == Append(st.feedback_buffer, sample)
        rec     == UpdatedPreferences(st.user_preferences, text, predicted_class,
                                      correct_class, reward, user_id)
        trigger == Len(buffer1) >= adaptation_threshold
        updated == trigger /\ _adapt_model_weights(buffer1)
    IN  [ feedback_buffer  |-> IF trigger THEN BufferAfterAdaptation(buffer1, updated)
                               ELSE buffer1,
          user_preferences |-> SetPreferences(st.user_preferences, user_id, rec),
          model_version    |-> IF updated THEN AdaptedVersion(st.model_version, buffer1)
                               ELSE st.model_version,
          model_updated    |-> updated ]

\* the dictionary apply_feedback_learning returns (its new_prediction is the
\* un-awaited coroutine of predict_spam when the model was updated); "saved"
\* records how the save of line 341 went, which the caller is not told
FeedbackResult(out, user_id, outcome) ==
    [ op                  |-> "apply_feedback_learning",
      saved               |-> outcome,
      user_id             |-> user_id,
      feedback_processed  |-> TRUE,
      model_updated       |-> out.model_updated,
      user_sensitivity    |-> out.user_preferences[user_id].spam_sensitivity,
      feedback_count      |-> out.user_preferences[user_id].feedback_count,
      correct_predictions |-> out.user_preferences[user_id].correct_predictions ]

\* the log after one more event, given how the save of line 341 went
Logged(log, event, outcome) ==
    [ applied |-> Append(log.applied, event),
      durable |-> IF outcome = "ok" THEN Len(log.applied) + 1 ELSE log.durable ]

ServiceState == [ feedback_buffer  |-> feedback_buffer,
                  user_preferences |-> user_preferences,
                  model_version    |-> model_version ]

\* one feedback event handed to the service, its save included (line 341)
ApplyFeedback ==
    /\ events < MaxEvents
    /\ \E text \in EventTexts, p \in Classes, c \in Classes, r \in Rewards,
          u \in Users, outcome \in SaveOutcomes :
          \E out \in {apply_feedback_learning(ServiceState, text, p, c, r, u)} :
              /\ feedback_buffer' = out.feedback_buffer
              /\ user_preferences' = out.user_preferences
              /\ model_version' = out.model_version
              /\ learning_disk' = _save_learning_data(learning_disk, outcome,
                                      out.feedback_buffer, out.user_preferences,
                                      out.model_version)
              /\ ret' = FeedbackResult(out, u, outcome)
              /\ feedback_log' = Logged(feedback_log, <<text, p, c, r, u>>, outcome)
    /\ events' = events + 1
    /\ UNCHANGED <<rlVars, trainVars, httpVars>>

-----------------------------------------------------------------------------
(* The two feedback endpoints: feedback.py submit_feedback (POST            *)
(* /feedback) and main.py submit_user_feedback (POST /api/v1/feedback).     *)
(* Both keep a list in memory and append to data/user_feedback.json.       *)

FeedbackTypes == {"correct", "incorrect"}

\* writing user_feedback.json: "ok", an error before the file is opened
\* ("fail", the file is untouched), or an error after open(.., 'w') truncated
\* it ("torn", the file no longer parses)
FileOutcomes == {"ok", "fail", "torn"}

NoFeedbackFile == [status |-> "absent", entries |-> <<>>]

\* feedback.py:231 and main.py:896
OppositeClass(c) == IF c = "spam" THEN "ham" ELSE "spam"

\* feedback.py:225-232 and main.py:890-897
CorrectLabel(feedback_type, predicted_class) ==
    IF feedback_type = "correct" THEN predicted_class ELSE OppositeClass(predicted_class)

RewardOf(feedback_type) == IF feedback_type = "correct" THEN 1 ELSE -1

\* feedback.py:264-280 and main.py:901-914: read the file if it exists, append
\* the one new record, write the list back.  A file that does not parse makes
\* json.load raise, and nothing is written.
AppendToFeedbackFile(file, record, outcome) ==
    IF file.status = "corrupt" THEN file
    ELSE CASE outcome = "ok"   -> [status |-> "ok", entries |-> Append(file.entries, record)]
           [] outcome = "torn" -> [status |-> "corrupt", entries |-> <<>>]
           [] OTHER            -> file

\* TRUE iff the record reached the file
FileWritten(file, outcome) == file.status # "corrupt" /\ outcome = "ok"

\* feedback.py:204-214 with the fields set at 256-258 (the dictionary in
\* FEEDBACK_STORAGE and the one written to the file are the same object)
FeedbackData(id, user_id, feedback_type, predicted_class) ==
    [ id              |-> id,
      user_id         |-> user_id,
      feedback_type   |-> feedback_type,
      predicted_class |-> predicted_class,
      processed       |-> TRUE,
      reward          |-> RewardOf(feedback_type),
      correct_label   |-> CorrectLabel(feedback_type, predicted_class) ]

\* feedback.py submit_feedback.  When the model was updated, new_prediction
\* is the coroutine object predict_email_class returns, FeedbackResponse
\* rejects it and the outer handler answers 500, after the state changed.
SubmitFeedback ==
    /\ events < MaxSubmits
    /\ \E text \in EventTexts, u \in Users, t \in FeedbackTypes, p \in Classes,
          outcome \in SaveOutcomes, fout \in FileOutcomes :
          \E out \in {apply_feedback_learning(ServiceState, text, p,
                                              CorrectLabel(t, p), RewardOf(t), u)} :
              /\ feedback_buffer' = out.feedback_buffer
              /\ user_preferences' = out.user_preferences
              /\ model_version' = out.model_version
              /\ learning_disk' = _save_learning_data(learning_disk, outcome,
                                      out.feedback_buffer, out.user_preferences,
                                      out.model_version)
              /\ feedback_log' = Logged(feedback_log,
                                    <<text, p, CorrectLabel(t, p), RewardOf(t), u>>,
                                    outcome)
              /\ FEEDBACK_STORAGE' = Append(FEEDBACK_STORAGE,
                                            FeedbackData(events + 1, u, t, p))
              /\ feedback_file' = AppendToFeedbackFile(feedback_file,
                                      FeedbackData(events + 1, u, t, p), fout)
              /\ ret' = [ op                |-> "submit_feedback",
                          status            |-> IF out.model_updated THEN 500 ELSE 200,
                          algorithm_updated |-> out.model_updated,
                          saved             |-> outcome,
                          file_written      |-> FileWritten(feedback_file, fout) ]
    /\ events' = events + 1
    /\ UNCHANGED <<rlVars, trainVars, user_feedback_storage>>

\* main.py:873-883
UserFeedbackData(id, user_id, feedback_type, predicted_class) ==
    [ id              |-> id,
      user_id         |-> user_id,
      feedback_type   |-> feedback_type,
      predicted_class |-> predicted_class,
      processed       |-> TRUE ]

\* main.py submit_user_feedback: no learning, the list and the file only
SubmitUserFeedback ==
    /\ events < MaxSubmits
    /\ \E u \in Users, t \in FeedbackTypes, p \in Classes, fout \in FileOutcomes :
          /\ user_feedback_storage' = Append(user_feedback_storage,
                                             UserFeedbackData(events + 1, u, t, p))
          /\ feedback_file' = AppendToFeedbackFile(feedback_file,
                                  UserFeedbackData(events + 1, u, t, p), fout)
          /\ ret' = [ op                |-> "submit_user_feedback",
                      status            |-> 200,
                      algorithm_updated |-> FALSE,
                      saved             |-> "none",
                      file_written      |-> FileWritten(feedback_file, fout) ]
    /\ events' = events + 1
    /\ UNCHANGED <<feedback_buffer, user_preferences, model_version, learning_disk,
                   feedback_log, FEEDBACK_STORAGE, rlVars, trainVars>>

-----------------------------------------------------------------------------
(* Reinforcement update engine: MLService.apply_deep_rl_optimization        *)

RL_MEMORY_CAP  == 1000   \* if len(self.rl_memory) > 1000
RL_MEMORY_KEEP == 800    \* self.rl_memory = self.rl_memory[-800:]
REPLAY_MIN     == 10     \* if len(self.rl_memory) >= 10
REPLAY_BATCH   == 8      \* batch_size = min(8, len(self.rl_memory))
IMPROVEMENT_THRESHOLD == 5000   \* total_improvement > 0.005, in millionths
discount_factor == 95    \* self.discount_factor = 0.95, in hundredths

\* a value min(1.0, a / b) as the pair <<numerator, denominator>>
CappedRatio(a, b) == IF a >= b THEN <<1, 1>> ELSE <<a, b>>

\* MLService._extract_rl_state_features: the 8 normalized state features
_extract_rl_state_features(text) ==
    LET f == _extract_features(text)
    IN  [ length_norm       |-> CappedRatio(f.length[1], 1000),
          word_density      |-> CappedRatio(f.word_count[1], 100),
          uppercase_ratio   |-> f.uppercase_ratio,
          punctuation_ratio |-> <<f.exclamation_count[1] + f.question_count[1],
                                  Max(f.length[1], 1)>>,
          url_density       |-> CappedRatio(f.url_count[1], 5),
          email_density     |-> CappedRatio(f.email_count[1], 3),
          spam_words        |-> <<f.has_money_words[1], 1>>,
          urgent_words      |-> <<f.has_urgent_words[1], 1>> ]

\* MLService._encode_state: int(value * 10) of every feature, in the order of
\* the sorted feature names
StateFeatureOrder ==
    << "email_density", "length_norm", "punctuation_ratio", "spam_words",
       "uppercase_ratio", "urgent_words", "url_density", "word_density" >>

_encode_state(state_features) ==
    [ i \in 1..Len(StateFeatureOrder) |->
        (state_features[StateFeatureOrder[i]][1] * 10)
            \div state_features[StateFeatureOrder[i]][2] ]

\* the Q-table key of every text of the model, computed once
StateKeyOf == [text \in Emails |-> _encode_state(_extract_rl_state_features(text))]

\* lines 639-659: only the Q-learning branch (also taken for an unknown
\* algorithm name) creates the Q-table entry of the state
Algorithms == {"deep_q_learning", "policy_gradient"}

UsesQTable(algorithm) == algorithm \notin {"policy_gradient", "actor_critic"}

\* the experience appended at lines 662-671.  "state" and "next_state" are
\* the state features of the text; seq is the arrival number of the entry.
Experience(seq, text, predicted_class, target_class, reward) ==
    [ seq           |-> seq,
      text          |-> text,
      action        |-> predicted_class,
      reward        |-> reward,
      target_action |-> target_class ]

\* lines 673-675
LimitMemoryNoTruncation(memory) == memory

\* a buffer that gives up only as many entries as it is over its capacity
LimitMemoryOneOut(memory) ==
    IF Len(memory) > RL_MEMORY_CAP THEN LastN(memory, RL_MEMORY_CAP) ELSE memory

LimitMemory(memory) ==
    IF Len(memory) > RL_MEMORY_CAP THEN LastN(memory, RL_MEMORY_KEEP) ELSE memory

\* MLService._experience_replay_learning: random.sample draws REPLAY_BATCH
\* entries; each one gets a Q-table entry for its state.  The sets of state
\* keys a batch can cover:
AllStateKeys == {StateKeyOf[text] : text \in Emails}

\* how many entries of the buffer carry each state key
KeyCounts(memory) ==
    [ k \in AllStateKeys |->
        Cardinality({i \in 1..Len(memory) : StateKeyOf[memory[i].text] = k}) ]

RECURSIVE SumOver(_, _)
SumOver(f, S) ==
    IF S = {} THEN 0
    ELSE LET x == CHOOSE y \in S : TRUE IN f[x] + SumOver(f, S \ {x})

ReplayKeySets(counts, n) ==
    IF n < REPLAY_MIN THEN {{}}
    ELSE { S \in SUBSET {k \in AllStateKeys : counts[k] > 0} :
             /\ S # {}
             /\ Cardinality(S) <= REPLAY_BATCH
             /\ SumOver(counts, S) >= Min(REPLAY_BATCH, n) }

\* MLService._apply_q_learning_update on the Q-table.  Q-values are in
\* millionths and rounded down to a millionth; reward is 1 or -1 and
\* learning_rate is in millionths, a multiple of 1000.  "followed" tells
\* whether the two numbers of an entry are the values the program holds.
NewQValues == [spam |-> 0, ham |-> 0, followed |-> TRUE]

_apply_q_learning_update_boost_always(table, state_key, predicted_class, target_class, reward, learning_rate_) ==
    LET q            == IF state_key \in DOMAIN table THEN table[state_key]
                        ELSE NewQValues
        current_q    == q[predicted_class]
        max_future_q == Max(q.spam, q.ham)
        target_q     == reward * 1000000 + (discount_factor * max_future_q) \div 100
        q_delta      == ((learning_rate_ \div 1000) * (target_q - current_q))
                            \div 1000
        target_boost == ((learning_rate_ \div 1000) * Abs(reward) * 1000) \div 2
        updated      == [q EXCEPT ![predicted_class] = @ + q_delta]
    IN  (state_key :> [updated EXCEPT ![target_class] = @ + target_boost])
            @@ table

_apply_q_learning_update(table, state_key, predicted_class, target_class, reward, learning_rate_) ==
    LET q            == IF state_key \in DOMAIN table THEN table[state_key]
                        ELSE NewQValues
        current_q    == q[predicted_class]
        max_future_q == Max(q.spam, q.ham)
        target_q     == reward * 1000000 + (discount_factor * max_future_q) \div 100
        q_delta      == ((learning_rate_ \div 1000) * (target_q - current_q))
                            \div 1000
        target_boost == ((learning_rate_ \div 1000) * Abs(reward) * 1000) \div 2
        updated      == [q EXCEPT ![predicted_class] = @ + q_delta]
    IN  (state_key :> (IF target_class # predicted_class
                       THEN [updated EXCEPT ![target_class] = @ + target_boost]
                       ELSE updated)) @@ table

\* the Q-table after a replay pass over the entries with the given state
\* keys: each of them has an entry; which numbers it holds depends on the
\* draw of random.sample and is not followed from then on
Followed(table, state_key) ==
    state_key \notin DOMAIN table \/ table[state_key].followed

ReplayedEntries(table, keys) ==
    [ k \in (DOMAIN table) \cup keys |->
        IF k \in keys THEN [spam |-> 0, ham |-> 0, followed |-> FALSE]
        ELSE table[k] ]

\* lines 635-636 and _apply_policy_gradient_update: the network is made on
\* the first call and its weights move on a policy gradient update
PolicyNetworkAfter(network, algorithm, sklearn) ==
    IF ~UsesQTable(algorithm) /\ sklearn THEN "updated"
    ELSE IF network = "None" THEN "initial" ELSE network

\* lines 683-689.  base_improvement = abs(reward) * learning_rate alone
\* decides the test when it exceeds the threshold, the other two terms being
\* non-negative; otherwise the sum depends on the Q-values (not part of this
\* model) and both outcomes are kept.
ImprovementOutcomes(reward, rl_rate) ==
    IF (Abs(reward) * rl_rate) > IMPROVEMENT_THRESHOLD THEN {TRUE} ELSE {TRUE, FALSE}

\* MLService._update_xgboost_rl_model: the suffix is added unless the version
\* string already contains "rl"
HasRLSuffix(version) == \E i \in 1..Len(version) : version[i].suffix = "rl-enhanced"

_update_xgboost_rl_model_unguarded(version) ==
    Append(version, [suffix |-> "rl-enhanced", n |-> 0])

_update_xgboost_rl_model(version) ==
    IF HasRLSuffix(version) THEN version
    ELSE Append(version, [suffix |-> "rl-enhanced", n |-> 0])

\* learning rates a request may carry (optimization_config), in millionths
RLRates == {1000, 10000}

\* feedback.py:424-441: f1_improvement = total_improvement * 0.75 is tested
\* against the same 0.005
F1ImprovementOutcomes(reward, rl_rate, significant) ==
    IF (Abs(reward) * rl_rate * 3) \div 4 > IMPROVEMENT_THRESHOLD THEN {TRUE}
    ELSE IF significant THEN {TRUE, FALSE} ELSE {FALSE}

\* feedback.py:401-407 with corrected_classification absent
ApplyDeepRL ==
    /\ events < MaxRLEvents
    /\ \E text \in EventTexts, t \in FeedbackTypes, p \in Classes,
          algorithm \in Algorithms, rate \in RLRates :
          \E memory \in {LimitMemory(Append(rl_memory,
                            Experience(inserted + 1, text, p,
                                       CorrectLabel(t, p), RewardOf(t))))} :
          \E counts \in {KeyCounts(memory)} :
          \E replayed \in ReplayKeySets(counts, Len(memory)),
             significant \in ImprovementOutcomes(RewardOf(t), rate) :
          \E scheduled \in F1ImprovementOutcomes(RewardOf(t), rate, significant) :
              /\ rl_memory' = memory
              /\ rl_q_keys' = rl_q_keys
                                \cup (IF UsesQTable(algorithm)
                                      THEN {StateKeyOf[text]} ELSE {})
                                \cup replayed
              /\ rl_q_table' =
                    ReplayedEntries(
                        IF UsesQTable(algorithm)
                              /\ Followed(rl_q_table, StateKeyOf[text])
                        THEN _apply_q_learning_update(rl_q_table, StateKeyOf[text],
                                p, CorrectLabel(t, p), RewardOf(t), rate)
                        ELSE rl_q_table,
                        replayed)
              /\ rl_policy_network' = PolicyNetworkAfter(rl_policy_network,
                                          algorithm, SKLEARN_AVAILABLE)
              /\ model_version' = IF significant
                                  THEN _update_xgboost_rl_model(model_version)
                                  ELSE model_version
              /\ background_tasks' = IF scheduled
                                     THEN Append(background_tasks, events + 1)
                                     ELSE background_tasks
              /\ ret' = [ op        |-> "apply_deep_rl_optimization",
                          algorithm |-> algorithm,
                          learning_rate |-> rate,
                          significant |-> significant,
                          replay_batch |-> IF Len(memory) >= REPLAY_MIN
                                           THEN Min(REPLAY_BATCH, Len(memory))
                                           ELSE 0,
                          experience_replay_samples |-> Len(memory) ]
    /\ inserted' = inserted + 1
    /\ events' = events + 1
    /\ UNCHANGED <<mlVars, trainVars, httpVars, rl_learning_rate>>

\* an update of the RL weights that also discards the trained models
UpdateRLModelWeightsAndRegistry ==
    /\ background_tasks # <<>>
    /\ model_version' = Append(model_version,
                               [suffix |-> "session", n |-> Head(background_tasks)])
    /\ rl_learning_rate' = rl_learning_rate + 1
    /\ background_tasks' = Tail(background_tasks)
    /\ models' = EmptyMap
    /\ ret' = [op |-> "update_rl_model_weights"]
    /\ UNCHANGED <<mlVars, httpVars, rl_memory, rl_q_keys, rl_q_table,
                   rl_policy_network, inserted, events, training_results,
                   app_models, data_loaded, training_status, threads,
                   SKLEARN_AVAILABLE, dataset, now, runs>>

\* the background task of feedback.py:437-441 runs:
\* MLService.update_rl_model_weights with the f1_improvement that scheduled it
UpdateRLModelWeights ==
    /\ background_tasks # <<>>
    /\ model_version' = Append(model_version,
                               [suffix |-> "session", n |-> Head(background_tasks)])
    /\ rl_learning_rate' = rl_learning_rate + 1
    /\ background_tasks' = Tail(background_tasks)
    /\ ret' = [op |-> "update_rl_model_weights"]
    /\ UNCHANGED <<mlVars, trainVars, httpVars, rl_memory, rl_q_keys, rl_q_table,
                   rl_policy_network, inserted, events>>

-----------------------------------------------------------------------------
(* Per-user prediction (ml_service.py:404-429).  Probabilities handed in    *)
(* are in tenths, adjusted probabilities in hundredths.  predict_spam is a  *)
(* coroutine function and predict_email_class, a plain function, calls it   *)
(* without awaiting: what it holds as base_prediction is the coroutine      *)
(* object, which it returns as it is when there is no stored preference     *)
(* and subscripts, raising TypeError, when there is one.                    *)

BaseProbabilities == 0..10

NoUser == "None"

\* lines 417-419, on a base probability in tenths and a sensitivity in tenths
AdjustedProbability(original_prob, spam_sensitivity) ==
    Max(0, Min(100, original_prob * (10 + (spam_sensitivity - 5))))

\* answer: "coroutine" (the un-awaited predict_spam call, which would give
\* base), or "TypeError"
predict_email_class(prefs, user_id, base) ==
    IF user_id # NoUser /\ user_id \in DOMAIN prefs
    THEN [ op |-> "predict_email_class", user_id |-> user_id, base |-> base,
           answer |-> "TypeError", user_adapted |-> FALSE, probability |-> 0 ]
    ELSE [ op |-> "predict_email_class", user_id |-> user_id, base |-> base,
           answer |-> "coroutine", user_adapted |-> FALSE,
           probability |-> 10 * base ]

PredictEmailClass ==
    /\ \E user_id \in Users \cup {NoUser}, base \in BaseProbabilities :
          ret' = predict_email_class(user_preferences, user_id, base)
    /\ UNCHANGED <<mlVars, rlVars, trainVars, httpVars, model_version, events>>

-----------------------------------------------------------------------------
(* The value of ret before any operation has answered *)
NoReturn == [op |-> "none"]

\* main.py:212
IdleStatus == [is_training |-> FALSE, progress |-> 0,
               current_model |-> "None", models_completed |-> <<>>]

\* ---------------------------------------------------------------------------
\* Model registry, training and comparison (ml_service.py)
\* F1 scores are in thousandths.  A fitted model is the record
\* [run, full_f1]: the train_model call that fitted it and the F1 it scores
\* on the whole dataset.  A metrics dictionary keeps f1_score, the
\* _is_fallback and _is_real tags and the call that produced it (run, 0 for
\* an estimate); the cv_scores and the other three scores are left out.
\* ---------------------------------------------------------------------------

\* ml_service.py:71-79, in insertion order
RegistryOrder ==
    << "xgboost_rl", "xgboost", "random_forest", "neural_network", "svm",
       "logistic_regression", "naive_bayes" >>

available_models == { RegistryOrder[i] : i \in DOMAIN RegistryOrder }

Priority(model_name) ==
    CHOOSE i \in DOMAIN RegistryOrder : RegistryOrder[i] = model_name

\* 'class' is None for the flagship and, without the ML libraries, for all
ModelClass(model_name, sklearn) ==
    sklearn /\ model_name \in available_models \ {"xgboost_rl"}

\* main.py:215-273
AVAILABLE_MODELS ==
    { "logistic_regression", "xgboost", "naive_bayes", "neural_network", "svm",
      "random_forest", "xgboost_rl" }

\* spambase.data is nowhere, at data/spambase/ under the working directory,
\* or at /app/data/spambase/ only.  A file that is found but cannot be
\* parsed (1037-1043) is not among the cases.
Datasets == {"missing", "local", "docker"}

\* the paths train_model tries (937-942) against the one compare reads (1257)
DatasetFound(ds) == ds # "missing"
DatasetAtLocalPath(ds) == ds = "local"

\* the F1 a fitted model can score
F1Values == {920, 921}

\* where a library call of a training run raises: nowhere, in
\* cross-validation or fit (before the model is stored), or when the stored
\* model is scored
Faults == {"none", "fit", "metrics"}

realistic_metrics ==
    [ xgboost_rl |-> 947, xgboost |-> 920, random_forest |-> 905,
      neural_network |-> 893, svm |-> 885, logistic_regression |-> 882,
      naive_bayes |-> 872 ]

PositiveShare(memory, scale) ==
    (Cardinality({ i \in DOMAIN memory : memory[i].reward > 0 }) * scale)
        \div Len(memory)

_get_fallback_metrics_untagged(model_name, memory) ==
    LET base     == IF model_name \in DOMAIN realistic_metrics
                    THEN realistic_metrics[model_name]
                    ELSE realistic_metrics["logistic_regression"]
        rl_boost == IF Len(memory) > 0 THEN PositiveShare(memory, 15) ELSE 5
        boosted  == IF model_name = "xgboost_rl"
                    THEN Min(960, base + rl_boost) ELSE base
    IN  [ f1_score |-> Min(950, boosted), _is_fallback |-> FALSE,
          _is_real |-> FALSE, run |-> 0 ]

_get_fallback_metrics(model_name, memory) ==
    LET base     == IF model_name \in DOMAIN realistic_metrics
                    THEN realistic_metrics[model_name]
                    ELSE realistic_metrics["logistic_regression"]
        rl_boost == IF Len(memory) > 0 THEN PositiveShare(memory, 15) ELSE 5
        boosted  == IF model_name = "xgboost_rl"
                    THEN Min(960, base + rl_boost) ELSE base
    IN  [ f1_score |-> Min(950, boosted), _is_fallback |-> TRUE,
          _is_real |-> FALSE, run |-> 0 ]

GenuineMetrics(f1, run) ==
    [ f1_score |-> f1, _is_fallback |-> FALSE, _is_real |-> FALSE, run |-> run ]

TrainingData(metrics, timestamp) ==
    [ metrics |-> metrics, training_time |-> "unset", timestamp |-> timestamp,
      legitimate_training |-> TRUE ]

_save_training_results(results, outcome, model_name, metrics, timestamp) ==
    IF outcome = "ok"
    THEN (model_name :> TrainingData(metrics, timestamp)) @@ results
    ELSE results

DaysPerTick == 15
STALE_DAYS  == 30

_get_real_training_metrics_any_age(results, model_name, clock) ==
    IF model_name \in DOMAIN results
    THEN <<results[model_name].metrics>>
    ELSE <<>>

\* the stored metrics as a one-element sequence, <<>> for None
_get_real_training_metrics(results, model_name, clock) ==
    IF /\ model_name \in DOMAIN results
       /\ (clock - results[model_name].timestamp) * DaysPerTick < STALE_DAYS
    THEN <<results[model_name].metrics>>
    ELSE <<>>

_update_training_time(results, outcome, model_name) ==
    IF model_name \in DOMAIN results /\ outcome = "ok"
    THEN [results EXCEPT ![model_name].training_time = "measured"]
    ELSE results

\* the rows of the dataset file (X, y of _load_spambase_data)
Samples == 1..5

\* train_test_split(X, y, test_size=0.2): the test part holds ceil(0.2 * n)
\* rows and the training part the others; the two never share a row
train_test_split(rows) ==
    LET n_test == (Cardinality(rows) + 4) \div 5
    IN  [ train |-> {x \in rows : x <= Cardinality(rows) - n_test},
          test  |-> {x \in rows : x > Cardinality(rows) - n_test} ]

\* lines 1064-1079: rl_boost, in thousandths
RLBoost(memory, q_keys) ==
    (IF Len(memory) > 0 THEN PositiveShare(memory, 50) ELSE 0)
       + (IF q_keys # {} THEN Min(30, Cardinality(q_keys)) ELSE 0)

\* the F1 one fold of the cross-validation scores, and the value
\* base_score + random.gauss(0, variance) of an estimate, in thousandths
FoldScores == {920, 955}

\* one entry of "cv_scores" in the dictionary train_model returns: line 1010
\* (the fold scores), 1094 (cv_scores + rl_boost) and 1148 (an estimate)
cv_scores(st, model_name, metrics, fold) ==
    IF metrics._is_fallback THEN Max(700, Min(950, fold))
    ELSE IF model_name = "xgboost_rl"
    THEN fold + RLBoost(st.rl_memory, st.rl_q_keys)
    ELSE fold

\* st: [models, training_results, rl_memory, rl_q_keys, sklearn, dataset, now]
\* env: what this call meets: the F1 the fitted model scores on the test
\* split and on the whole dataset, where a library call raises, and
\* whether the results file can be written
_train_xgboost_rl_model(st, run, env) ==
    LET rl_boost == RLBoost(st.rl_memory, st.rl_q_keys)
        fitted   == ("xgboost_rl" :> [run |-> run, full_f1 |-> env.full_f1])
                        @@ st.models
    IN  IF env.fault = "fit"
        THEN [ models |-> st.models, training_results |-> st.training_results,
               metrics |-> _get_fallback_metrics("xgboost_rl", st.rl_memory),
               used |-> [cv |-> Samples, fit |-> {}, eval |-> {}] ]
        ELSE IF env.fault = "metrics"
        THEN [ models |-> fitted, training_results |-> st.training_results,
               metrics |-> _get_fallback_metrics("xgboost_rl", st.rl_memory),
               used |-> [cv |-> Samples, fit |-> Samples, eval |-> {}] ]
        ELSE [ models |-> fitted, training_results |-> st.training_results,
               metrics |-> GenuineMetrics(Min(980, env.full_f1 + rl_boost), run),
               used |-> [cv |-> Samples, fit |-> Samples, eval |-> Samples] ]

train_model(st, model_name, run, env) ==
    LET fallback == _get_fallback_metrics(model_name, st.rl_memory)
        fitted   == (model_name :> [run |-> run, full_f1 |-> env.full_f1])
                        @@ st.models
        metrics  == GenuineMetrics(env.test_f1, run)
        split    == train_test_split(Samples)
        unused   == [cv |-> {}, fit |-> {}, eval |-> {}]
    IN  IF ~st.sklearn \/ ~DatasetFound(st.dataset)
        THEN [ models |-> st.models, training_results |-> st.training_results,
               metrics |-> fallback, used |-> unused ]
        ELSE IF model_name = "xgboost_rl"
        THEN _train_xgboost_rl_model(st, run, env)
        ELSE IF ~ModelClass(model_name, st.sklearn)
        THEN [ models |-> st.models, training_results |-> st.training_results,
               metrics |-> fallback, used |-> unused ]
        ELSE IF env.fault = "fit"
        THEN [ models |-> st.models, training_results |-> st.training_results,
               metrics |-> fallback,
               used |-> [cv |-> split.train, fit |-> {}, eval |-> {}] ]
        ELSE IF env.fault = "metrics"
        THEN [ models |-> fitted, training_results |-> st.training_results,
               metrics |-> fallback,
               used |-> [cv |-> split.train, fit |-> split.train, eval |-> {}] ]
        ELSE [ models |-> fitted,
               training_results |->
                   _save_training_results(st.training_results, env.save,
                                          model_name, metrics, st.now),
               metrics |-> metrics,
               used |-> [cv |-> split.train, fit |-> split.train,
                         eval |-> split.test] ]

_calculate_real_model_metrics(model) ==
    [ f1_score |-> model.full_f1, _is_fallback |-> FALSE, _is_real |-> TRUE,
      run |-> model.run ]

\* lines 1187-1217: the metrics one key resolves to, <<>> when it is skipped
ResolveMetrics(st, model_name, allow_fallback_estimates) ==
    LET real_metrics ==
            _get_real_training_metrics(st.training_results, model_name, st.now)
    IN  IF real_metrics # <<>> THEN real_metrics
        ELSE IF model_name \in DOMAIN st.models /\ DatasetAtLocalPath(st.dataset)
        THEN <<_calculate_real_model_metrics(st.models[model_name])>>
        ELSE IF allow_fallback_estimates
        THEN <<_get_fallback_metrics(model_name, st.rl_memory)>>
        ELSE <<>>

NoBest == [key |-> "None", f1_score |-> 0, is_trained |-> FALSE, priority |-> 0]

\* lines 1222-1230
SelectBest(best, model_name, metrics, st) ==
    IF model_name = "xgboost_rl" \/ metrics.f1_score > best.f1_score
    THEN [ key |-> model_name, f1_score |-> metrics.f1_score,
           is_trained |-> model_name \in DOMAIN st.models,
           priority |-> Priority(model_name) ]
    ELSE best

RECURSIVE CompareLoop(_, _, _, _)
CompareLoop(st, allow_fallback_estimates, i, acc) ==
    IF i > Len(RegistryOrder) THEN acc
    ELSE LET model_name == RegistryOrder[i]
             resolved   == ResolveMetrics(st, model_name, allow_fallback_estimates)
         IN  IF resolved = <<>>
             THEN CompareLoop(st, allow_fallback_estimates, i + 1, acc)
             ELSE CompareLoop(st, allow_fallback_estimates, i + 1,
                    [ model_metrics |-> (model_name :> resolved[1]) @@ acc.model_metrics,
                      best_model |-> SelectBest(acc.best_model, model_name,
                                                resolved[1], st) ])

compare_all_models(st, allow_fallback_estimates) ==
    CompareLoop(st, allow_fallback_estimates, 1,
                [model_metrics |-> EmptyMap, best_model |-> NoBest])

TrainState ==
    [ models |-> models, training_results |-> training_results,
      rl_memory |-> rl_memory, rl_q_keys |-> rl_q_keys,
      sklearn |-> SKLEARN_AVAILABLE, dataset |-> dataset, now |-> now ]

Environments ==
    [ test_f1 : F1Values, full_f1 : F1Values, fault : Faults, save : SaveOutcomes ]

\* the keys the requests of this model name; "bogus" is in no registry
RequestKeys == {"xgboost_rl", "xgboost", "bogus"}

\* feedback.py:467-508, POST /feedback/models/train
TrainRoute ==
    /\ events < MaxRequests
    /\ \E algorithm_name \in RequestKeys, env \in Environments,
          time_write \in SaveOutcomes, fold \in FoldScores :
         \E out \in { train_model(TrainState, algorithm_name, runs + 1, env) } :
           /\ models' = out.models
           /\ training_results' =
                 _update_training_time(out.training_results, time_write,
                                       algorithm_name)
           /\ ret' = [ op |-> "train_route", success |-> TRUE,
                       algorithm_name |-> algorithm_name,
                       metrics |-> out.metrics, fault |-> env.fault,
                       used |-> out.used,
                       cv_score |-> cv_scores(TrainState, algorithm_name,
                                              out.metrics, fold),
                       before |-> training_results ]
    /\ runs' = runs + 1
    /\ events' = events + 1
    /\ UNCHANGED <<mlVars, rlVars, httpVars, model_version,
                   app_models, data_loaded, training_status, threads,
                   SKLEARN_AVAILABLE, dataset, now>>

\* "repeat" of an answer: the call before it was the same call, and nothing
\* happened between the two
Repeated(last, allow_fallback_estimates) ==
    last.op = "compare" /\ last.allow = allow_fallback_estimates

CompareAndPersist ==
    /\ \E allow_fallback_estimates \in BOOLEAN :
         \E out \in { compare_all_models(TrainState, allow_fallback_estimates) } :
           /\ ret' = [ op |-> "compare", allow |-> allow_fallback_estimates,
                       repeat |-> Repeated(ret, allow_fallback_estimates),
                       model_metrics |-> out.model_metrics,
                       best_model |-> out.best_model ]
           /\ training_results' =
                 [ k \in DOMAIN out.model_metrics |->
                     TrainingData(out.model_metrics[k], now) ]
    /\ UNCHANGED <<mlVars, rlVars, httpVars, model_version, events, models,
                   app_models, data_loaded, training_status, threads,
                   SKLEARN_AVAILABLE, dataset, now, runs>>

\* feedback.py:511-593 (allow_fallback False) and main.py:738-760 (True)
Compare ==
    /\ \E allow_fallback_estimates \in BOOLEAN :
         \E out \in { compare_all_models(TrainState, allow_fallback_estimates) } :
           ret' = [ op |-> "compare", allow |-> allow_fallback_estimates,
                    repeat |-> Repeated(ret, allow_fallback_estimates),
                    model_metrics |-> out.model_metrics,
                    best_model |-> out.best_model ]
    /\ UNCHANGED <<mlVars, rlVars, httpVars, trainVars, model_version, events>>

\* DaysPerTick days go by
Tick ==
    /\ now < MaxTicks
    /\ now' = now + 1
    /\ ret' = NoReturn
    /\ UNCHANGED <<mlVars, rlVars, httpVars, model_version, events, models,
                   training_results, app_models, data_loaded, training_status,
                   threads, SKLEARN_AVAILABLE, dataset, runs>>

\* the process is restarted: __init__ (47-79) and load_models
Restart ==
    /\ ret # NoReturn
    /\ models' = EmptyMap
    /\ app_models' = EmptyMap
    /\ training_status' = IdleStatus
    /\ threads' = <<>>
    /\ rl_memory' = <<>>
    /\ rl_q_keys' = {}
    /\ rl_q_table' = EmptyMap
    /\ rl_policy_network' = "None"
    /\ rl_learning_rate' = 0
    /\ background_tasks' = <<>>
    /\ feedback_buffer' = _load_learning_data(learning_disk).feedback_buffer
    /\ user_preferences' = _load_learning_data(learning_disk).user_preferences
    /\ model_version' = _load_learning_data(learning_disk).model_version
    /\ feedback_log' = [feedback_log EXCEPT
                           !.applied = SubSeq(@, 1, feedback_log.durable)]
    /\ FEEDBACK_STORAGE' = <<>>
    /\ user_feedback_storage' = <<>>
    /\ ret' = NoReturn
    /\ UNCHANGED <<learning_disk, training_results, feedback_file, data_loaded,
                   SKLEARN_AVAILABLE, dataset, now, events, inserted, runs>>

\* ---------------------------------------------------------------------------
\* Batch training (main.py).  POST /models/train answers on the event loop
\* and hands the batch to a thread; each thread is a record
\* [queue, i, pc, order, results]: the keys to train, how many are done, its
\* position ("start", "loop", "train", "done"), and the results dictionary
\* as its keys in insertion order and their values.
\* The service is attached to the application (app.state.ml_service).
\* ---------------------------------------------------------------------------

DefaultBatch == <<"logistic_regression", "xgboost">>

\* algorithm_names of the requests of this model; <<>> stands for none given
RequestLists == { <<>>, <<"xgboost_rl">>, <<"bogus">> }

InFlight == { t \in DOMAIN threads : threads[t].pc # "done" }

NewThread(models_to_train) ==
    [ queue |-> models_to_train, i |-> 0, pc |-> "start", order |-> <<>>,
      results |-> EmptyMap ]

\* main.py:461-505
train_models(status, loaded, algorithm_names) ==
    LET models_to_train == IF algorithm_names # <<>> THEN algorithm_names
                           ELSE DefaultBatch
        invalid_models  == { i \in DOMAIN models_to_train :
                               models_to_train[i] \notin AVAILABLE_MODELS }
    IN  IF ~loaded
        THEN [ op |-> "train_models", code |-> 503, status |-> "data_not_loaded",
               started |-> <<>> ]
        ELSE IF status.is_training
        THEN [ op |-> "train_models", code |-> 200,
               status |-> "training_in_progress", started |-> <<>> ]
        ELSE IF invalid_models # {}
        THEN [ op |-> "train_models", code |-> 400, status |-> "invalid_models",
               started |-> <<>> ]
        ELSE [ op |-> "train_models", code |-> 200, status |-> "training_started",
               started |-> <<NewThread(models_to_train)>> ]

TrainModels ==
    /\ events < MaxRequests
    /\ \E algorithm_names \in RequestLists :
         \E out \in { train_models(training_status, data_loaded, algorithm_names) } :
           /\ threads' = threads \o out.started
           /\ ret' = [ op |-> out.op, code |-> out.code, status |-> out.status,
                       algorithm_names |-> algorithm_names,
                       in_flight |-> InFlight # {} ]
    /\ events' = events + 1
    /\ UNCHANGED <<mlVars, rlVars, httpVars, model_version, models,
                   training_results, app_models, data_loaded, training_status,
                   SKLEARN_AVAILABLE, dataset, now, runs>>

\* main.py:590-594
ThreadBegin(t) ==
    /\ threads[t].pc = "start"
    /\ training_status' = [training_status EXCEPT !.is_training = TRUE,
                                                  !.progress = 0,
                                                  !.models_completed = <<>>]
    /\ threads' = [threads EXCEPT ![t].pc = "loop"]
    /\ ret' = NoReturn
    /\ UNCHANGED <<mlVars, rlVars, httpVars, model_version, events, models,
                   training_results, app_models, data_loaded,
                   SKLEARN_AVAILABLE, dataset, now, runs>>

\* main.py:521-523
ThreadAnnounce(t) ==
    /\ threads[t].pc = "loop"
    /\ threads[t].i < Len(threads[t].queue)
    /\ training_status' =
          [training_status EXCEPT
              !.current_model = threads[t].queue[threads[t].i + 1],
              !.progress = (threads[t].i * 100) \div Len(threads[t].queue)]
    /\ threads' = [threads EXCEPT ![t].pc = "train"]
    /\ ret' = NoReturn
    /\ UNCHANGED <<mlVars, rlVars, httpVars, model_version, events, models,
                   training_results, app_models, data_loaded,
                   SKLEARN_AVAILABLE, dataset, now, runs>>

BatchResultNoEstimate(service_models, model_key, metrics, i) ==
    IF model_key \in DOMAIN service_models /\ ~metrics._is_fallback
    THEN [ f1_score |-> metrics.f1_score, _is_real_training |-> TRUE,
           _is_fallback |-> FALSE, run |-> metrics.run,
           model |-> service_models[model_key] ]
    ELSE [ f1_score |-> 0, _is_real_training |-> FALSE,
           _is_fallback |-> TRUE, run |-> 0,
           model |-> [run |-> 0, full_f1 |-> 0] ]

\* main.py:531-560: what the thread keeps for one key
BatchResult(service_models, model_key, metrics, i) ==
    IF model_key \in DOMAIN service_models
    THEN [ f1_score |-> metrics.f1_score, _is_real_training |-> TRUE,
           _is_fallback |-> FALSE, run |-> metrics.run,
           model |-> service_models[model_key] ]
    ELSE [ f1_score |-> 850 + i * 20, _is_real_training |-> FALSE,
           _is_fallback |-> TRUE, run |-> 0,
           model |-> [run |-> 0, full_f1 |-> 0] ]

\* main.py:527-564
ThreadTrain(t) ==
    /\ threads[t].pc = "train"
    /\ \E env \in Environments :
         LET model_key == threads[t].queue[threads[t].i + 1] IN
         \E out \in { train_model(TrainState, model_key, runs + 1, env) } :
         \E res \in { BatchResult(out.models, model_key, out.metrics, threads[t].i) } :
           /\ models' = out.models
           /\ training_results' = out.training_results
           /\ app_models' = (model_key :> res.model) @@ app_models
           /\ threads' =
                 [threads EXCEPT
                    ![t].results = (model_key :> res) @@ threads[t].results,
                    ![t].order = IF model_key \in DOMAIN threads[t].results
                                 THEN threads[t].order
                                 ELSE Append(threads[t].order, model_key),
                    ![t].i = threads[t].i + 1,
                    ![t].pc = "loop"]
           /\ training_status' =
                 [training_status EXCEPT
                    !.models_completed = Append(@, model_key)]
    /\ runs' = runs + 1
    /\ ret' = NoReturn
    /\ UNCHANGED <<mlVars, rlVars, httpVars, model_version, events,
                   data_loaded, SKLEARN_AVAILABLE, dataset, now>>

\* main.py:599-614
ThreadFinish(t) ==
    /\ threads[t].pc = "loop"
    /\ threads[t].i = Len(threads[t].queue)
    /\ training_status' = [ is_training |-> FALSE, progress |-> 100,
                            current_model |-> "None",
                            models_completed |-> threads[t].order ]
    /\ threads' = [threads EXCEPT ![t].pc = "done"]
    /\ ret' = NoReturn
    /\ UNCHANGED <<mlVars, rlVars, httpVars, model_version, events, models,
                   training_results, app_models, data_loaded,
                   SKLEARN_AVAILABLE, dataset, now, runs>>

Begin    == \E t \in DOMAIN threads : ThreadBegin(t)
Announce == \E t \in DOMAIN threads : ThreadAnnounce(t)
Train    == \E t \in DOMAIN threads : ThreadTrain(t)
Finish   == \E t \in DOMAIN threads : ThreadFinish(t)

-----------------------------------------------------------------------------
(* Initial states.  The service is constructed and load_models has read     *)
(* learning_data.json: either no file exists yet, or the file is the one an *)
(* earlier process left after the six corrections of PriorCorrections.      *)

FreshService == [ feedback_buffer  |-> <<>>,
                  user_preferences |-> EmptyMap,
                  model_version    |-> InitialVersion ]

PriorCorrections ==
    << <<TextHi, "ham", "spam", -1, "u1">>, <<TextHi, "ham", "spam", -1, "u1">>,
       <<TextHi, "ham", "spam", -1, "u1">>, <<TextHi, "spam", "ham", -1, "u2">>,
       <<TextHi, "spam", "ham", -1, "u2">>, <<TextHi, "spam", "ham", -1, "u2">> >>

RECURSIVE Replay(_, _)
Replay(st, evs) ==
    IF evs = <<>> THEN st
    ELSE LET e   == Head(evs)
             out == apply_feedback_learning(st, e[1], e[2], e[3], e[4], e[5])
         IN  Replay([ feedback_buffer  |-> out.feedback_buffer,
                      user_preferences |-> out.user_preferences,
                      model_version    |-> out.model_version ], Tail(evs))

PriorLearningFile ==
    LET st == Replay(FreshService, PriorCorrections)
    IN  _save_learning_data(NoLearningFile, "ok", st.feedback_buffer,
                            st.user_preferences, st.model_version)

InitialLearningFiles == {NoLearningFile, PriorLearningFile}

\* an earlier process that received eight confirmations and then four
\* corrections: the mean of the last ten rewards never went below zero, so
\* the buffer was never cleared and the file holds all twelve samples
LongHistory ==
    [i \in 1..12 |-> IF i <= 8 THEN <<TextFree, "ham", "ham", 1, "u1">>
                     ELSE <<TextFree, "spam", "ham", -1, "u2">>]

LongLearningFile ==
    LET st == Replay(FreshService, LongHistory)
    IN  _save_learning_data(NoLearningFile, "ok", st.feedback_buffer,
                            st.user_preferences, st.model_version)

\* the events behind the preference records a learning-data file holds
LogOf(disk) ==
    IF disk = PriorLearningFile
    THEN [applied |-> PriorCorrections, durable |-> Len(PriorCorrections)]
    ELSE IF disk = LongLearningFile
    THEN [applied |-> LongHistory, durable |-> Len(LongHistory)]
    ELSE [applied |-> <<>>, durable |-> 0]


Init ==
    /\ learning_disk \in InitialLearningFiles
    /\ feedback_log = LogOf(learning_disk)
    /\ feedback_buffer = _load_learning_data(learning_disk).feedback_buffer
    /\ user_preferences = _load_learning_data(learning_disk).user_preferences
    /\ model_version = _load_learning_data(learning_disk).model_version
    /\ rl_memory = <<>>
    /\ rl_q_keys = {}
    /\ rl_q_table = EmptyMap
    /\ rl_policy_network = "None"
    /\ rl_learning_rate = 0
    /\ background_tasks = <<>>
    /\ models = EmptyMap
    /\ training_results = EmptyMap
    /\ feedback_file = NoFeedbackFile
    /\ FEEDBACK_STORAGE = <<>>
    /\ user_feedback_storage = <<>>
    /\ app_models = EmptyMap
    /\ data_loaded = TRUE
    /\ training_status = IdleStatus
    /\ threads = <<>>
    /\ SKLEARN_AVAILABLE = TRUE
    /\ dataset = "local"
    /\ now = 0
    /\ ret = NoReturn
    /\ events = 0
    /\ inserted = 0
    /\ runs = 0

Next == ApplyFeedback

Spec == Init /\ [][Next]_vars

\* The feedback service started on any of the three learning-data files
InitAdapt ==
    /\ learning_disk \in InitialLearningFiles \cup {LongLearningFile}
    /\ feedback_log = LogOf(learning_disk)
    /\ feedback_buffer = _load_learning_data(learning_disk).feedback_buffer
    /\ user_preferences = _load_learning_data(learning_disk).user_preferences
    /\ model_version = _load_learning_data(learning_disk).model_version
    /\ rl_memory = <<>>
    /\ rl_q_keys = {}
    /\ rl_q_table = EmptyMap
    /\ rl_policy_network = "None"
    /\ rl_learning_rate = 0
    /\ background_tasks = <<>>
    /\ models = EmptyMap
    /\ training_results = EmptyMap
    /\ feedback_file = NoFeedbackFile
    /\ FEEDBACK_STORAGE = <<>>
    /\ user_feedback_storage = <<>>
    /\ app_models = EmptyMap
    /\ data_loaded = TRUE
    /\ training_status = IdleStatus
    /\ threads = <<>>
    /\ SKLEARN_AVAILABLE = TRUE
    /\ dataset = "local"
    /\ now = 0
    /\ ret = NoReturn
    /\ events = 0
    /\ inserted = 0
    /\ runs = 0

SpecAdapt == InitAdapt /\ [][Next]_vars

\* The replay buffer of a service that has already taken RL_MEMORY_CAP
\* optimization calls (Q-learning, rate 0.01, text TextHi, confirmed "ham"):
\* nothing was dropped yet, every call passed the improvement threshold.
FullMemory ==
    [ i \in 1..RL_MEMORY_CAP |-> Experience(i, TextHi, "ham", "ham", 1) ]

\* eight Q-learning calls at the rate 0.001 were made for a confirmed "ham":
\* two entries short of a replay pass, and none of them moved the version
ShortMemory ==
    [ i \in 1..(REPLAY_MIN - 2) |-> Experience(i, TextHi, "ham", "ham", 1) ]

RECURSIVE QTableOf(_)
QTableOf(memory) ==
    IF memory = <<>> THEN EmptyMap
    ELSE LET e == memory[Len(memory)]
         IN  _apply_q_learning_update(QTableOf(SubSeq(memory, 1, Len(memory) - 1)),
                                      StateKeyOf[e.text], e.action,
                                      e.target_action, e.reward, 1000)

InitRL ==
    /\ \/ /\ rl_memory = <<>>
          /\ rl_q_keys = {}
          /\ rl_q_table = EmptyMap
          /\ rl_policy_network = "None"
          /\ model_version = InitialVersion
          /\ inserted = 0
          /\ learning_disk = NoLearningFile
          /\ models = EmptyMap
          /\ training_results = EmptyMap
          /\ runs = 0
       \/ \* started on the file of the earlier process, trained xgboost once
          /\ rl_memory = ShortMemory
          /\ rl_q_keys = {StateKeyOf[TextHi]}
          /\ rl_q_table = QTableOf(ShortMemory)
          /\ rl_policy_network = "initial"
          /\ model_version = InitialVersion
          /\ inserted = Len(ShortMemory)
          /\ learning_disk = PriorLearningFile
          /\ models = ("xgboost" :> [run |-> 1, full_f1 |-> 921])
          /\ training_results =
                ("xgboost" :> TrainingData(GenuineMetrics(920, 1), 0))
          /\ runs = 1
       \/ /\ rl_memory = FullMemory
          /\ rl_q_keys = {StateKeyOf[TextHi]}
          /\ rl_q_table = ReplayedEntries(EmptyMap, {StateKeyOf[TextHi]})
          /\ rl_policy_network = "initial"
          /\ model_version = _update_xgboost_rl_model(InitialVersion)
          /\ inserted = RL_MEMORY_CAP
          /\ learning_disk = NoLearningFile
          /\ models = EmptyMap
          /\ training_results = EmptyMap
          /\ runs = 0
    /\ feedback_log = LogOf(learning_disk)
    /\ feedback_buffer = _load_learning_data(learning_disk).feedback_buffer
    /\ user_preferences = _load_learning_data(learning_disk).user_preferences
    /\ rl_learning_rate = 0
    /\ background_tasks = <<>>
    /\ feedback_file = NoFeedbackFile
    /\ FEEDBACK_STORAGE = <<>>
    /\ user_feedback_storage = <<>>
    /\ app_models = EmptyMap
    /\ data_loaded = TRUE
    /\ training_status = IdleStatus
    /\ threads = <<>>
    /\ SKLEARN_AVAILABLE = TRUE
    /\ dataset = "local"
    /\ now = 0
    /\ ret = NoReturn
    /\ events = 0

NextRL == ApplyDeepRL \/ UpdateRLModelWeights

SpecRL == InitRL /\ [][NextRL]_vars

NextEndpoint == SubmitFeedback \/ SubmitUserFeedback

SpecEndpoint == Init /\ [][NextEndpoint]_vars

\* A service on which user u1 has made up to six corrections in one
\* direction, so that u1's sensitivity is anywhere from 0.0 to 1.0, and u2
\* has no record.
CorrectionRuns ==
    { [i \in 1..n |-> <<TextHi, p, OppositeClass(p), -1, "u1">>] :
         n \in 0..6, p \in Classes }

InitPredict ==
    /\ \E evs \in CorrectionRuns :
         /\ feedback_buffer = Replay(FreshService, evs).feedback_buffer
         /\ user_preferences = Replay(FreshService, evs).user_preferences
         /\ model_version = Replay(FreshService, evs).model_version
         /\ feedback_log = [applied |-> evs, durable |-> Len(evs)]
         /\ learning_disk =
               _save_learning_data(NoLearningFile, IF evs = <<>> THEN "fail" ELSE "ok",
                                   Replay(FreshService, evs).feedback_buffer,
                                   Replay(FreshService, evs).user_preferences,
                                   Replay(FreshService, evs).model_version)
    /\ rl_memory = <<>>
    /\ rl_q_keys = {}
    /\ rl_q_table = EmptyMap
    /\ rl_policy_network = "None"
    /\ rl_learning_rate = 0
    /\ background_tasks = <<>>
    /\ models = EmptyMap
    /\ training_results = EmptyMap
    /\ feedback_file = NoFeedbackFile
    /\ FEEDBACK_STORAGE = <<>>
    /\ user_feedback_storage = <<>>
    /\ app_models = EmptyMap
    /\ data_loaded = TRUE
    /\ training_status = IdleStatus
    /\ threads = <<>>
    /\ SKLEARN_AVAILABLE = TRUE
    /\ dataset = "local"
    /\ now = 0
    /\ ret = NoReturn
    /\ events = 0
    /\ inserted = 0
    /\ runs = 0

NextPredict == PredictEmailClass

SpecPredict == InitPredict /\ [][NextPredict]_vars

\* A service started on the training results earlier processes left behind:
\* no model is loaded, and each of SelectKeys has no result or the result of
\* a training run that scored one of SelectF1 (0 is the F1 of a model that
\* flags nothing as spam).  The flagship has none: its runs are not saved.
SelectKeys == {"xgboost", "random_forest", "svm"}

SelectF1 == {0, 920, 921}

StoredResult(model_name, f1) ==
    TrainingData(GenuineMetrics(f1, Priority(model_name)), 0)

SelectStores ==
    UNION { [ keys -> SelectF1 ] : keys \in SUBSET SelectKeys }

InitSelect ==
    /\ \E scores \in SelectStores :
          training_results =
             [ k \in DOMAIN scores |-> StoredResult(k, scores[k]) ]
    /\ learning_disk = NoLearningFile
    /\ feedback_log = LogOf(learning_disk)
    /\ feedback_buffer = <<>>
    /\ user_preferences = EmptyMap
    /\ model_version = InitialVersion
    /\ rl_memory = <<>>
    /\ rl_q_keys = {}
    /\ rl_q_table = EmptyMap
    /\ rl_policy_network = "None"
    /\ rl_learning_rate = 0
    /\ background_tasks = <<>>
    /\ models = EmptyMap
    /\ feedback_file = NoFeedbackFile
    /\ FEEDBACK_STORAGE = <<>>
    /\ user_feedback_storage = <<>>
    /\ app_models = EmptyMap
    /\ data_loaded = TRUE
    /\ training_status = IdleStatus
    /\ threads = <<>>
    /\ SKLEARN_AVAILABLE = TRUE
    /\ dataset = "local"
    /\ now = 0
    /\ ret = NoReturn
    /\ events = 0
    /\ inserted = 0
    /\ runs = Len(RegistryOrder)

NextSelect == Compare \/ Tick

SpecSelect == InitSelect /\ [][NextSelect]_vars

\* The training service: the ML libraries were importable or not when the
\* module was loaded, and the dataset is at one of the places it is sought.
\* one Q-learning call at the rate 0.001 confirmed a "spam" prediction
OneConfirmation == << Experience(1, TextFree, "spam", "spam", 1) >>

InitTrain ==
    /\ learning_disk = NoLearningFile
    /\ feedback_log = LogOf(learning_disk)
    /\ feedback_buffer = <<>>
    /\ user_preferences = EmptyMap
    /\ model_version = InitialVersion
    /\ \/ /\ rl_memory = <<>>
          /\ rl_q_keys = {}
          /\ rl_q_table = EmptyMap
          /\ rl_policy_network = "None"
          /\ inserted = 0
       \/ /\ rl_memory = OneConfirmation
          /\ rl_q_keys = {StateKeyOf[TextFree]}
          /\ rl_q_table = QTableOf(OneConfirmation)
          /\ rl_policy_network = "initial"
          /\ inserted = 1
    /\ rl_learning_rate = 0
    /\ background_tasks = <<>>
    /\ models = EmptyMap
    /\ training_results = EmptyMap
    /\ feedback_file = NoFeedbackFile
    /\ FEEDBACK_STORAGE = <<>>
    /\ user_feedback_storage = <<>>
    /\ app_models = EmptyMap
    /\ data_loaded \in BOOLEAN
    /\ training_status = IdleStatus
    /\ threads = <<>>
    /\ SKLEARN_AVAILABLE \in BOOLEAN
    /\ dataset \in Datasets
    /\ now = 0
    /\ ret = NoReturn
    /\ events = 0
    /\ runs = 0

NextTrain == TrainRoute \/ Compare \/ Tick \/ Restart

SpecTrain == InitTrain /\ [][NextTrain]_vars

NextBatch == TrainModels \/ Begin \/ Announce \/ Train \/ Finish \/ TrainRoute

\* The application after startup: the dataset was read into memory or the
\* read failed (main.py:313-371), the service is importable as deployed.
InitBatch ==
    /\ InitTrain
    /\ rl_memory = <<>>
    /\ SKLEARN_AVAILABLE
    /\ dataset = "local"

SpecBatch == InitBatch /\ [][NextBatch]_vars

\* a started background thread keeps running: threading.Thread(...).start()
\* at main.py:495-497 hands it to the scheduler, and nothing cancels it
SpecBatchLive == SpecBatch /\ WF_vars(Begin \/ Announce \/ Train \/ Finish)

-----------------------------------------------------------------------------
(* C1: for every user with a preference record, spam_sensitivity is within  *)
(* [0.0, 1.0] after every feedback event (0..10 in tenths), and so is the   *)
(* sensitivity that apply_feedback_learning reports.                        *)
SensitivityInRange ==
    /\ \A u \in DOMAIN user_preferences :
          /\ user_preferences[u].spam_sensitivity >= SensitivityMin
          /\ user_preferences[u].spam_sensitivity <= SensitivityMax
    /\ ret.op = "apply_feedback_learning" =>
          /\ ret.user_sensitivity >= SensitivityMin
          /\ ret.user_sensitivity <= SensitivityMax

\* a user whose sensitivity sits at a limit after more events than the walk
\* from the default takes: an adjustment was clamped
SensitivityClampedWitness ==
    /\ ret.op = "apply_feedback_learning"
    /\ \E u \in DOMAIN user_preferences :
          /\ user_preferences[u].spam_sensitivity \in {SensitivityMin, SensitivityMax}
          /\ user_preferences[u].feedback_count
                > (SensitivityMax - DefaultSensitivity) \div SensitivityStep

-----------------------------------------------------------------------------
(* C4 (as stated): after any sequence of feedback events the feedback       *)
(* buffer holds fewer than adaptation_threshold entries.                    *)
BufferBelowThreshold ==
    Len(feedback_buffer) < adaptation_threshold

-----------------------------------------------------------------------------
(* C10 (as stated): once a persistence write succeeds, the durable state    *)
(* reflects every feedback event received so far, whatever earlier writes   *)
(* did: user_feedback.json holds the record of every event, and the         *)
(* learning-data file holds the preferences the service has accumulated.    *)
EventIds(entries) == {entries[i].id : i \in 1..Len(entries)}

NoFeedbackLost ==
    /\ (ret.op \in {"submit_feedback", "submit_user_feedback"} /\ ret.file_written)
          => EventIds(feedback_file.entries) = 1..events
    /\ (ret.op = "submit_feedback" /\ ret.saved = "ok")
          => learning_disk.user_preferences = user_preferences

-----------------------------------------------------------------------------
(* C3: after every apply_deep_rl_optimization call the replay buffer holds  *)
(* at most 1000 entries, and they are the most recently inserted ones in    *)
(* arrival order: the entry at position i is insertion number               *)
(* inserted - Len + i.                                                      *)
MemoryIsRecentSuffix ==
    /\ Len(rl_memory) <= RL_MEMORY_CAP
    /\ Len(rl_memory) <= inserted
    /\ \A i \in 1..Len(rl_memory) :
          rl_memory[i].seq = inserted - Len(rl_memory) + i

\* more than 1000 insertions were made and the buffer was truncated on the way
MemoryTruncatedWitness ==
    /\ inserted = RL_MEMORY_CAP + MaxRLEvents
    /\ Len(rl_memory) = RL_MEMORY_KEEP + MaxRLEvents - 1
    /\ ret.op = "apply_deep_rl_optimization"

-----------------------------------------------------------------------------
(* C2 (as stated): at most one training batch is in flight, a request to    *)
(* POST /models/train that arrives while a batch is in flight does not      *)
(* start another one, and the /feedback/models/train route does not train   *)
(* while a batch is in flight.                                              *)
OneBatchAtATime ==
    /\ Cardinality(InFlight) <= 1
    /\ (ret.op = "train_models" /\ ret.in_flight)
          => ret.status # "training_started"
    /\ ret.op = "train_route" => InFlight = {}

-----------------------------------------------------------------------------
(* C5 (as stated): when the comparison holds the flagship xgboost_rl and no *)
(* key's F1 exceeds the flagship's by more than the rounding step (0.001),  *)
(* the flagship is the best model reported.                                 *)
FlagshipWinsWithinRounding ==
    ( /\ ret.op = "compare"
      /\ "xgboost_rl" \in DOMAIN ret.model_metrics
      /\ \A k \in DOMAIN ret.model_metrics :
            ret.model_metrics[k].f1_score
               <= ret.model_metrics["xgboost_rl"].f1_score + 1 )
    => ret.best_model.key = "xgboost_rl"

-----------------------------------------------------------------------------
(* C6: in the answer of compare_all_models a registered key is present      *)
(* exactly when it has a persisted result younger than 30 days, or a loaded *)
(* model whose metrics can be recomputed, or estimates are allowed; its     *)
(* metrics are the persisted ones if those are fresh, else the recomputed   *)
(* ones if the model is loaded and the dataset is at hand, else a tagged    *)
(* estimate.  No other key is present.                                      *)
FreshResult(k) ==
    /\ k \in DOMAIN training_results
    /\ (now - training_results[k].timestamp) * DaysPerTick < STALE_DAYS

LiveModel(k) ==
    k \in DOMAIN models /\ dataset = "local"

ComparisonResolution ==
    ret.op = "compare" =>
       /\ DOMAIN ret.model_metrics \subseteq available_models
       /\ \A k \in available_models :
             /\ k \in DOMAIN ret.model_metrics
                   <=> (FreshResult(k) \/ LiveModel(k) \/ ret.allow)
             /\ FreshResult(k)
                   => ret.model_metrics[k] = training_results[k].metrics
             /\ (~FreshResult(k) /\ LiveModel(k))
                   => /\ ret.model_metrics[k]._is_real
                      /\ ret.model_metrics[k].f1_score = models[k].full_f1
             /\ (~FreshResult(k) /\ ~LiveModel(k) /\ ret.allow)
                   => ret.model_metrics[k]._is_fallback

\* estimates not allowed: a key is answered from its fresh persisted result
\* although its loaded model would score differently, a second key whose
\* persisted result is absent and whose model is not loaded is left out
PersistedPreferredWitness ==
    /\ ret.op = "compare"
    /\ ~ret.allow
    /\ \E k \in DOMAIN ret.model_metrics :
          /\ FreshResult(k)
          /\ LiveModel(k)
          /\ models[k].full_f1 # training_results[k].metrics.f1_score
          /\ ret.model_metrics[k].f1_score = training_results[k].metrics.f1_score
    /\ \E k \in available_models : k \notin DOMAIN ret.model_metrics

-----------------------------------------------------------------------------
(* C7 (as stated): after a train_model call that returned genuine metrics   *)
(* for key K, the training-results store holds for K the metrics just       *)
(* returned, and the results of the other keys are as they were.            *)
GenuineRunPersisted ==
    (ret.op = "train_route" /\ ~ret.metrics._is_fallback) =>
       /\ ret.algorithm_name \in DOMAIN training_results
       /\ training_results[ret.algorithm_name].metrics = ret.metrics
       /\ DOMAIN training_results \ {ret.algorithm_name}
             = DOMAIN ret.before \ {ret.algorithm_name}
       /\ \A k \in DOMAIN ret.before \ {ret.algorithm_name} :
             training_results[k] = ret.before[k]

-----------------------------------------------------------------------------
(* C8: train_model always returns a metrics result.  The result carries     *)
(* _is_fallback when the ML libraries are absent, the dataset is missing or *)
(* a training step raised; a result without the flag was produced by the    *)
(* training run of this call; and every stored TrainingResult holds         *)
(* unflagged metrics of a training run.                                     *)
FallbackFlaggedNeverPersisted ==
    /\ ret.op = "train_route" =>
          /\ ret.success
          /\ (~SKLEARN_AVAILABLE \/ dataset = "missing" \/ ret.fault # "none")
                => ret.metrics._is_fallback
          /\ ret.metrics._is_fallback => ret.metrics.run = 0
          /\ ~ret.metrics._is_fallback => ret.metrics.run = runs
    /\ \A k \in DOMAIN training_results :
          /\ ~training_results[k].metrics._is_fallback
          /\ training_results[k].metrics.run > 0
          /\ training_results[k].legitimate_training

\* training raised after the fitted model was stored: the caller gets a
\* flagged estimate and nothing was persisted for the key
FallbackAfterFailureWitness ==
    /\ ret.op = "train_route"
    /\ ret.fault = "metrics"
    /\ ret.metrics._is_fallback
    /\ ret.algorithm_name \in DOMAIN models
    /\ models[ret.algorithm_name].run = runs
    /\ ret.algorithm_name \notin DOMAIN training_results

-----------------------------------------------------------------------------
(* C9 (as stated): a training request that names a key outside the registry *)
(* is rejected: the /feedback/models/train route does not answer success    *)
(* with metrics, and POST /models/train starts no batch for it.             *)
UnknownKeyRejected ==
    /\ (ret.op = "train_route" /\ ret.algorithm_name \notin available_models)
          => ~ret.success
    /\ ( /\ ret.op = "train_models"
         /\ \E i \in DOMAIN ret.algorithm_names :
               ret.algorithm_names[i] \notin AVAILABLE_MODELS )
          => ret.status # "training_started"

-----------------------------------------------------------------------------
(* C11: in a batch every key the thread has gone past has a result and a    *)
(* model in main.py's registry, whether its training failed or not; the     *)
(* result of a key whose training failed (no run produced its metrics)      *)
(* holds estimate metrics: the service's fallback estimate or the mock      *)
(* figure 0.85 + 0.02 i.  No step removes a result the thread holds or a    *)
(* model from either registry, and training one key leaves the results of   *)
(* the other keys of the batch as they were.                                *)
Attempted(t) == { threads[t].queue[j] : j \in 1..threads[t].i }

EstimateF1(model_key) ==
    { _get_fallback_metrics(model_key, rl_memory).f1_score }
       \cup { 850 + 20 * (j - 1) : j \in 1..Len(DefaultBatch) }

FailedKeysHaveEstimates ==
    \A t \in DOMAIN threads :
       /\ DOMAIN threads[t].results = Attempted(t)
       /\ Attempted(t) \subseteq DOMAIN app_models
       /\ \A k \in DOMAIN threads[t].results :
             threads[t].results[k].run = 0
                => threads[t].results[k].f1_score \in EstimateF1(k)

CompletedWorkKept ==
    /\ DOMAIN models \subseteq DOMAIN models'
    /\ DOMAIN app_models \subseteq DOMAIN app_models'
    /\ \A t \in DOMAIN threads :
          /\ t \in DOMAIN threads'
          /\ DOMAIN threads[t].results \subseteq DOMAIN threads'[t].results
          /\ \A k \in DOMAIN threads[t].results :
                (threads'[t].i = threads[t].i
                   \/ k # threads[t].queue[threads[t].i + 1])
                => threads'[t].results[k] = threads[t].results[k]

BatchFailureIsolated ==
    []FailedKeysHaveEstimates /\ [][CompletedWorkKept]_vars

\* a finished batch of two keys: the first failed and holds an estimate, the
\* second was trained after it by a run of its own
FailureThenSuccessWitness ==
    \E t \in DOMAIN threads :
       /\ threads[t].pc = "done"
       /\ Len(threads[t].queue) = 2
       /\ threads[t].results[threads[t].queue[1]].run = 0
       /\ threads[t].results[threads[t].queue[2]].run > 0
       /\ training_status.models_completed = threads[t].order

-----------------------------------------------------------------------------
(* C12 (as stated): a batch result recorded as real training output carries *)
(* metrics of the training run that fitted the model the registry held for  *)
(* the key when the result was recorded.                                    *)
RealResultMatchesModel ==
    \A t \in DOMAIN threads :
       \A k \in DOMAIN threads[t].results :
          threads[t].results[k]._is_real_training
             => /\ threads[t].results[k].run > 0
                /\ threads[t].results[k].run = threads[t].results[k].model.run

-----------------------------------------------------------------------------
(* C13: the preference record of every user is the one obtained by applying *)
(* that user's own events alone, in their arrival order, to a fresh         *)
(* service (a user without events has no record); and an event of one user  *)
(* leaves the records of all other users as they were.                      *)
EventsOf(u) ==
    SelectSeq(feedback_log.applied, LAMBDA e : e[5] = u)

OwnEventsDecide ==
    \A u \in Users :
       LET alone == Replay(FreshService, EventsOf(u)).user_preferences
       IN  IF EventsOf(u) = <<>>
           THEN u \notin DOMAIN user_preferences
           ELSE /\ u \in DOMAIN user_preferences
                /\ user_preferences[u] = alone[u]

OthersUntouched ==
    ret'.op = "apply_feedback_learning" =>
       \A u \in DOMAIN user_preferences :
          u # ret'.user_id
             => /\ u \in DOMAIN user_preferences'
                /\ user_preferences'[u] = user_preferences[u]

PerUserIsolation ==
    []OwnEventsDecide /\ [][OthersUntouched]_vars

\* the two users' events alternate, each user has a record of its own that
\* differs from the other's
InterleavedUsersWitness ==
    /\ ret.op = "apply_feedback_learning"
    /\ Len(feedback_log.applied) >= 3
    /\ \E i \in 2..(Len(feedback_log.applied) - 1) :
          /\ feedback_log.applied[i][5] # feedback_log.applied[i - 1][5]
          /\ feedback_log.applied[i][5] # feedback_log.applied[i + 1][5]
    /\ DOMAIN user_preferences = Users
    /\ user_preferences["u1"].spam_sensitivity
          # user_preferences["u2"].spam_sensitivity

-----------------------------------------------------------------------------
(* C14: a user's feedback_count is the number of that user's events and     *)
(* correct_predictions the number of those with reward > 0; every event     *)
(* raises feedback_count by exactly 1 and correct_predictions by 1 exactly  *)
(* when its reward is positive; a user all of whose events had              *)
(* predicted_class equal to correct_class is at the default sensitivity.    *)
PositiveEvents(evs) == { i \in DOMAIN evs : evs[i][4] > 0 }

CountsMatchEvents ==
    \A u \in DOMAIN user_preferences :
       /\ user_preferences[u].feedback_count = Len(EventsOf(u))
       /\ user_preferences[u].correct_predictions
             = Cardinality(PositiveEvents(EventsOf(u)))
       /\ (\A i \in DOMAIN EventsOf(u) : EventsOf(u)[i][2] = EventsOf(u)[i][3])
             => user_preferences[u].spam_sensitivity = DefaultSensitivity

RecordBefore(u) ==
    IF u \in DOMAIN user_preferences THEN user_preferences[u]
    ELSE NewUserPreferences

CountsStep ==
    ret'.op = "apply_feedback_learning" =>
       LET e == feedback_log'.applied[Len(feedback_log'.applied)]
           u == ret'.user_id
       IN  /\ user_preferences'[u].feedback_count
                 = RecordBefore(u).feedback_count + 1
           /\ user_preferences'[u].correct_predictions
                 = RecordBefore(u).correct_predictions
                      + (IF e[4] > 0 THEN 1 ELSE 0)
           /\ e[2] = e[3]
                 => user_preferences'[u].spam_sensitivity
                       = RecordBefore(u).spam_sensitivity

FeedbackCounts ==
    []CountsMatchEvents /\ [][CountsStep]_vars

\* MaxEvents confirmations (reward +1, predicted = correct) for one user who
\* had a corrected history: both counters rose by MaxEvents and the
\* sensitivity is where the corrections had left it
ConfirmationsCountedWitness ==
    /\ events = MaxEvents
    /\ \E u \in DOMAIN user_preferences :
          /\ Len(EventsOf(u)) = Len(PriorCorrections) \div 2 + MaxEvents
          /\ user_preferences[u].feedback_count = Len(EventsOf(u))
          /\ user_preferences[u].correct_predictions = MaxEvents
          /\ user_preferences[u].spam_sensitivity # DefaultSensitivity
          /\ \A i \in 1..MaxEvents :
                LET e == feedback_log.applied[Len(PriorCorrections) + i]
                IN  e[2] = e[3] /\ e[4] > 0

-----------------------------------------------------------------------------
(* C15: an event with predicted_class different from correct_class moves    *)
(* the user's spam_sensitivity by one step of 0.1, up when the corrected    *)
(* class is spam and down otherwise, and the result is clamped to [0, 1];   *)
(* an event with equal classes leaves it unchanged.  A user whose only      *)
(* events are n corrections from ham to spam is at min(1, 0.5 + 0.1 n),     *)
(* so at 0.7 after two.                                                     *)
SensitivityStepTaken ==
    ret'.op = "apply_feedback_learning" =>
       LET e   == feedback_log'.applied[Len(feedback_log'.applied)]
           old == RecordBefore(ret'.user_id).spam_sensitivity
           new == user_preferences'[ret'.user_id].spam_sensitivity
       IN  /\ (e[2] # e[3] /\ e[3] = "spam")
                 => new = (IF old + SensitivityStep > SensitivityMax
                           THEN SensitivityMax ELSE old + SensitivityStep)
           /\ (e[2] # e[3] /\ e[3] # "spam")
                 => new = (IF old - SensitivityStep < SensitivityMin
                           THEN SensitivityMin ELSE old - SensitivityStep)
           /\ e[2] = e[3] => new = old

SpamCorrectionsAddUp ==
    \A u \in DOMAIN user_preferences :
       (\A i \in DOMAIN EventsOf(u) :
            EventsOf(u)[i][2] = "ham" /\ EventsOf(u)[i][3] = "spam")
       => user_preferences[u].spam_sensitivity
             = (IF DefaultSensitivity + SensitivityStep * Len(EventsOf(u))
                      > SensitivityMax
                THEN SensitivityMax
                ELSE DefaultSensitivity + SensitivityStep * Len(EventsOf(u)))

SensitivityMovesByStep ==
    []SpamCorrectionsAddUp /\ [][SensitivityStepTaken]_vars

\* a user new to the service after exactly two corrections from ham to spam
TwoSpamCorrectionsWitness ==
    /\ ret.op = "apply_feedback_learning"
    /\ \E u \in DOMAIN user_preferences :
          /\ ret.user_id = u
          /\ Len(EventsOf(u)) = 2
          /\ \A i \in 1..2 :
                EventsOf(u)[i][2] = "ham" /\ EventsOf(u)[i][3] = "spam"
          /\ user_preferences[u].spam_sensitivity
                = DefaultSensitivity + 2 * SensitivityStep
          /\ ret.user_sensitivity = user_preferences[u].spam_sensitivity

-----------------------------------------------------------------------------
(* C16 (as stated): for a user with stored preferences predict_email_class  *)
(* answers the probability clamp(p * (1 + (s - 0.5)), 0, 1), which is in    *)
(* [0, 1] and equals p at s = 0.5; for a user without stored preferences,   *)
(* or no user id, it answers the base probability.                          *)
AdjustedProbabilityReturned ==
    ret.op = "predict_email_class" =>
       IF ret.user_id \in DOMAIN user_preferences
       THEN /\ ret.answer # "TypeError"
            /\ ret.probability
                  = AdjustedProbability(ret.base,
                        user_preferences[ret.user_id].spam_sensitivity)
            /\ ret.probability \in 0..100
            /\ user_preferences[ret.user_id].spam_sensitivity = DefaultSensitivity
                  => ret.probability = 10 * ret.base
       ELSE ret.probability = 10 * ret.base

-----------------------------------------------------------------------------
(* C17: a compare_all_models call changes neither registry nor the          *)
(* persisted training results, and a call without estimates that follows    *)
(* the same call with nothing in between answers the same model set, the    *)
(* same metrics and the same best model.                                    *)
CompareStep ==
    ret'.op = "compare" =>
       /\ models' = models
       /\ app_models' = app_models
       /\ training_results' = training_results
       /\ (ret'.repeat /\ ~ret'.allow)
             => /\ ret'.model_metrics = ret.model_metrics
                /\ ret'.best_model = ret.best_model

-----------------------------------------------------------------------------
(* C18 (as stated): when the comparison answers a non-empty set of results  *)
(* without the flagship, the best model is one of them, no result has a     *)
(* higher F1, and no result with the same F1 has a lower priority value;    *)
(* there is no best model only when there are no results.                   *)
BestIsMaxThenPriority ==
    (ret.op = "compare" /\ "xgboost_rl" \notin DOMAIN ret.model_metrics) =>
       IF DOMAIN ret.model_metrics = {}
       THEN ret.best_model = NoBest
       ELSE /\ ret.best_model.key \in DOMAIN ret.model_metrics
            /\ ret.best_model.f1_score
                  = ret.model_metrics[ret.best_model.key].f1_score
            /\ \A k \in DOMAIN ret.model_metrics :
                  /\ ret.model_metrics[k].f1_score <= ret.best_model.f1_score
                  /\ ret.model_metrics[k].f1_score = ret.best_model.f1_score
                        => Priority(ret.best_model.key) <= Priority(k)

-----------------------------------------------------------------------------
(* C19 (as stated): a reported best model carries the F1 the results hold   *)
(* for its key and its priority rank, and its trained flag is true exactly  *)
(* when the metrics used for it are not estimates.                          *)
BestRecordTellsOrigin ==
    (ret.op = "compare" /\ ret.best_model # NoBest) =>
       /\ ret.best_model.key \in DOMAIN ret.model_metrics
       /\ ret.best_model.f1_score
             = ret.model_metrics[ret.best_model.key].f1_score
       /\ ret.best_model.priority = Priority(ret.best_model.key)
       /\ ret.best_model.is_trained
             <=> ~ret.model_metrics[ret.best_model.key]._is_fallback

-----------------------------------------------------------------------------
(* C20: a call of apply_feedback_learning appends "-adapted-N" to the model *)
(* version, N being the length of the buffer with the new sample in it, and *)
(* reports model_updated, exactly when that buffer holds at least           *)
(* adaptation_threshold samples and the rewards of its last ten sum to less *)
(* than zero; in every other case the version is left as it was and         *)
(* model_updated is false.                                                  *)
RewardsAtCall ==
    Append([i \in 1..Len(feedback_buffer) |-> feedback_buffer[i].reward],
           feedback_log'.applied[Len(feedback_log'.applied)][4])

AdaptationDue ==
    /\ Len(RewardsAtCall) >= adaptation_threshold
    /\ SumSeq(LastN(RewardsAtCall, RecentWindow)) < 0

VersionStep ==
    IF AdaptationDue
    THEN /\ model_version' = Append(model_version,
                                [suffix |-> "adapted", n |-> Len(RewardsAtCall)])
         /\ ret'.model_updated
    ELSE /\ model_version' = model_version
         /\ ~ret'.model_updated

VersionTaggedIffDue == [][VersionStep]_vars

AdaptedOnRecentWindowWitness ==
    /\ ret.op = "apply_feedback_learning"
    /\ ret.model_updated
    /\ model_version[Len(model_version)].n > RecentWindow
    /\ feedback_buffer = <<>>

-----------------------------------------------------------------------------
(* C21 (as stated): when an insertion pushes the replay buffer past 1000    *)
(* entries, the truncation drops exactly the 200 oldest entries and leaves  *)
(* the 800 most recent ones.                                                *)
Inserting == inserted' = inserted + 1

Overflowing == Inserting /\ Len(rl_memory) + 1 > RL_MEMORY_CAP

DroppedByStep == Len(rl_memory) + 1 - Len(rl_memory')

KeepsMostRecent ==
    /\ Len(rl_memory') = RL_MEMORY_KEEP
    /\ rl_memory'[RL_MEMORY_KEEP].seq = inserted + 1
    /\ \A i \in 1..(RL_MEMORY_KEEP - 1) :
          rl_memory'[i] = rl_memory[Len(rl_memory) - (RL_MEMORY_KEEP - 1) + i]

TruncationDropsTwoHundred ==
    [][Overflowing => (KeepsMostRecent
                        /\ DroppedByStep = RL_MEMORY_CAP - RL_MEMORY_KEEP)]_vars

(* C21 (amended): the insertion that makes the buffer hold 1001 entries     *)
(* leaves exactly the 800 most recent ones, the new entry last, and so      *)
(* drops the 201 oldest; an insertion that does not exceed 1000 drops none. *)
TruncationKeepsEightHundred ==
    [][Inserting =>
          IF Overflowing
          THEN KeepsMostRecent
                 /\ DroppedByStep = RL_MEMORY_CAP + 1 - RL_MEMORY_KEEP
          ELSE DroppedByStep = 0]_vars

\* the 1001st insertion has just been made: entry 202 is now the oldest
JustTruncatedWitness ==
    /\ ret.op = "apply_deep_rl_optimization"
    /\ inserted = RL_MEMORY_CAP + 1
    /\ Len(rl_memory) = RL_MEMORY_KEEP
    /\ rl_memory[1].seq = RL_MEMORY_CAP + 2 - RL_MEMORY_KEEP

-----------------------------------------------------------------------------
(* C22 (as stated): whatever key train_model trains, xgboost_rl included,   *)
(* the rows are split 80/20, cross-validation and the final fit use the     *)
(* training part only, and the reported metrics are computed on the test    *)
(* part only: no row used for fitting or cross-validation is used for the   *)
(* reported metrics.                                                        *)
MetricsFromHeldOutRows ==
    (ret.op = "train_route" /\ ~ret.metrics._is_fallback) =>
       /\ ret.used.eval # {}
       /\ 5 * Cardinality(ret.used.eval) = Cardinality(Samples)
       /\ ret.used.fit = Samples \ ret.used.eval
       /\ ret.used.cv = Samples \ ret.used.eval
       /\ ret.used.eval \cap (ret.used.fit \cup ret.used.cv) = {}

-----------------------------------------------------------------------------
(* C23 (as stated): for the text of every RL update each of the 8           *)
(* normalized state features lies in [0, 1], and every component of a       *)
(* Q-table key made by _encode_state is a bin index in 0..9; the key is a   *)
(* function of the text alone.                                              *)
LastExperience == rl_memory[Len(rl_memory)]

StateBinsBelowTen ==
    /\ \A key \in rl_q_keys : \A i \in DOMAIN key : key[i] \in 0..9
    /\ (ret.op = "apply_deep_rl_optimization" /\ rl_memory # <<>>) =>
          LET features == _extract_rl_state_features(LastExperience.text)
          IN  /\ DOMAIN features = {StateFeatureOrder[i] : i \in 1..8}
              /\ \A name \in DOMAIN features :
                    /\ features[name][1] >= 0
                    /\ features[name][1] <= features[name][2]
              /\ _encode_state(features) = StateKeyOf[LastExperience.text]

-----------------------------------------------------------------------------
(* C24: an apply_deep_rl_optimization call with the Q-learning algorithm on *)
(* state s, predicted label a, target label, reward r and rate alpha sets   *)
(* Q(s,a) to Q(s,a) + alpha * (r + 0.95 * max(Q(s,spam), Q(s,ham)) -        *)
(* Q(s,a)), all Q-values being those before the call and 0 for a state not  *)
(* seen before; it adds alpha * |r| * 0.5 to Q(s,target) exactly when the   *)
(* target differs from a, and otherwise leaves the other label of s as it   *)
(* was; Q-values of other states do not change, and a policy gradient call  *)
(* changes no Q-value.  (Entries a replay pass has gone over are left out.) *)
QBefore(state_key) ==
    IF state_key \in DOMAIN rl_q_table THEN rl_q_table[state_key]
    ELSE [spam |-> 0, ham |-> 0, followed |-> TRUE]

QLearningStep ==
    LET e     == rl_memory'[Len(rl_memory')]
        s     == StateKeyOf[e.text]
        a     == e.action
        other == OppositeClass(a)
        old   == QBefore(s)
        alpha == ret'.learning_rate \div 1000
        best  == IF old.spam > old.ham THEN old.spam ELSE old.ham
        goal  == e.reward * 1000000 + (95 * best) \div 100
    IN  /\ (ret'.algorithm = "deep_q_learning" /\ rl_q_table'[s].followed) =>
              /\ rl_q_table'[s][a] = old[a] + (alpha * (goal - old[a])) \div 1000
              /\ rl_q_table'[s][other] =
                    old[other] + (IF e.target_action # a
                                  THEN (alpha * Abs(e.reward) * 1000) \div 2
                                  ELSE 0)
        /\ \A k \in DOMAIN rl_q_table' :
              (rl_q_table'[k].followed
                 /\ (k # s \/ ret'.algorithm # "deep_q_learning"))
                 => (k \in DOMAIN rl_q_table /\ rl_q_table'[k] = rl_q_table[k])

QLearningRule == [][Inserting => QLearningStep]_vars

\* a prediction for a new state was corrected after eight updates of
\* another state: both labels of the new state moved, and the state seen
\* earlier kept the values its eight updates gave it
CorrectedNewStateWitness ==
    /\ ret.op = "apply_deep_rl_optimization"
    /\ ret.algorithm = "deep_q_learning"
    /\ StateKeyOf[TextFree] \in DOMAIN rl_q_table
    /\ rl_q_table[StateKeyOf[TextFree]].followed
    /\ rl_q_table[StateKeyOf[TextFree]].spam # 0
    /\ rl_q_table[StateKeyOf[TextFree]].ham # 0
    /\ StateKeyOf[TextHi] \in DOMAIN rl_q_table
    /\ rl_q_table[StateKeyOf[TextHi]] = QTableOf(ShortMemory)[StateKeyOf[TextHi]]
    /\ rl_q_table[StateKeyOf[TextHi]].ham > 1000
    /\ Len(rl_memory) = Len(ShortMemory) + 1

-----------------------------------------------------------------------------
(* C25 (as stated): every feedback event, whether it arrives at             *)
(* POST /feedback or at the RL optimization route, appends exactly one      *)
(* experience to the replay buffer; a replay pass over at most 8 buffered   *)
(* entries runs exactly when the buffer holds at least 10 entries after the *)
(* append, and the pass leaves the buffer as the append made it.            *)
FeedbackEventStep ==
    /\ events' = events + 1
    /\ ret'.op \in {"submit_feedback", "apply_deep_rl_optimization"}

OneExperiencePerEvent ==
    /\ inserted' = inserted + 1
    /\ rl_memory' # <<>>
    /\ rl_memory'[Len(rl_memory')].seq = inserted'
    /\ \A i \in 1..(Len(rl_memory') - 1) :
          rl_memory'[i] = rl_memory[Len(rl_memory) - (Len(rl_memory') - 1) + i]
    /\ ret'.op = "apply_deep_rl_optimization" =>
          /\ ret'.replay_batch <= REPLAY_BATCH
          /\ ret'.replay_batch > 0 <=> Len(rl_memory') >= REPLAY_MIN

EveryFeedbackIsReplayed == [][FeedbackEventStep => OneExperiencePerEvent]_vars

-----------------------------------------------------------------------------
(* C26: after an apply_deep_rl_optimization call whose total improvement    *)
(* exceeds 0.005, and after an update_rl_model_weights run, the model       *)
(* version carries the "-rl-enhanced" suffix; a call whose improvement is   *)
(* at or below 0.005 leaves the version as it was; and the suffix never     *)
(* occurs more than once in the version.                                    *)
RLSuffixes == {i \in 1..Len(model_version) : model_version[i].suffix = "rl-enhanced"}

RLSuffixStep ==
    /\ (Inserting /\ ret'.significant) =>
          /\ \E i \in 1..Len(model_version') :
                model_version'[i].suffix = "rl-enhanced"
          /\ \A i \in 1..Len(model_version) : model_version'[i] = model_version[i]
          /\ Len(model_version') <= Len(model_version) + 1
    /\ (Inserting /\ ~ret'.significant) => model_version' = model_version
    /\ ret'.op = "update_rl_model_weights" =>
          \E i \in 1..Len(model_version') :
             model_version'[i].suffix = "rl-enhanced"

RLSuffixOnceWhenImproved ==
    [](Cardinality(RLSuffixes) <= 1) /\ [][RLSuffixStep]_vars

\* the version already carried the suffix when another call improved the
\* model by more than 0.005
ImprovedAgainWitness ==
    /\ ret.op = "apply_deep_rl_optimization"
    /\ ret.significant
    /\ inserted = RL_MEMORY_CAP + 1
    /\ Cardinality(RLSuffixes) = 1

-----------------------------------------------------------------------------
(* C27: an RL update, be it apply_deep_rl_optimization with either          *)
(* algorithm or update_rl_model_weights, leaves the trained-model registry, *)
(* the persisted training results, the feedback buffer and every user's     *)
(* preferences as they were, and with them the files and the training       *)
(* status; what it changes is among the Q-table, the policy network, the    *)
(* replay buffer, the RL learning rate and the model version.               *)
RLUpdateStep ==
    ret'.op \in {"apply_deep_rl_optimization", "update_rl_model_weights"} =>
       /\ models' = models
       /\ training_results' = training_results
       /\ feedback_buffer' = feedback_buffer
       /\ user_preferences' = user_preferences
       /\ UNCHANGED <<mlVars, trainVars, httpVars>>

RLUpdateFrame == [][RLUpdateStep]_vars

\* a service with a trained model, a stored result and two users' preferences
\* has gone through an RL call and the weight update it scheduled
WeightsUpdatedWitness ==
    /\ ret.op = "update_rl_model_weights"
    /\ rl_learning_rate > 0
    /\ "xgboost" \in DOMAIN models
    /\ "xgboost" \in DOMAIN training_results
    /\ DOMAIN user_preferences = Users
    /\ Len(rl_memory) > Len(ShortMemory)

-----------------------------------------------------------------------------
(* C28 (as stated): whatever the replay buffer and the Q-table hold, the    *)
(* F1 that train_model reports for xgboost_rl is at most 0.98 after a       *)
(* genuine run and at most 0.96 on the fallback path, and no score of the   *)
(* answer, its cross-validation scores included, exceeds 1.0.               *)
FlagshipScoresCapped ==
    (ret.op = "train_route" /\ ret.algorithm_name = "xgboost_rl") =>
       /\ ret.metrics.f1_score <= (IF ret.metrics._is_fallback THEN 960 ELSE 980)
       /\ ret.metrics.f1_score <= 1000
       /\ ret.cv_score <= 1000

-----------------------------------------------------------------------------
(* C29 (as stated): every batch that was started eventually ends, the step  *)
(* that ends it leaves is_training = false and current_model = none in the  *)
(* status, and while the status says a batch is running the reported        *)
(* progress never decreases.                                                *)
BatchEnds(t) ==
    (Len(threads) >= t) ~> (Len(threads) >= t /\ threads[t].pc = "done")

EveryBatchEnds == \A t \in 1..MaxRequests : BatchEnds(t)

EndingStep(t) ==
    /\ t \in DOMAIN threads
    /\ threads[t].pc # "done"
    /\ threads'[t].pc = "done"

EndsIdle ==
    (\E t \in 1..MaxRequests : EndingStep(t)) =>
        /\ ~training_status'.is_training
        /\ training_status'.current_model = "None"

ProgressStep ==
    (training_status.is_training /\ training_status'.is_training) =>
        training_status'.progress >= training_status.progress

BatchEndsIdle == EveryBatchEnds /\ [][EndsIdle]_vars

BatchEndsAndProgressGrows ==
    /\ EveryBatchEnds
    /\ [][EndsIdle]_vars
    /\ [][ProgressStep]_vars

-----------------------------------------------------------------------------
(* C30 (as stated): when train_model(K) returns a fallback-flagged result,  *)
(* the registry entry for K and the persisted result for K (its metrics and *)
(* its timestamp) are what they were before the call, wherever the run      *)
(* failed.                                                                  *)
RegistryEntry(registry, k) == IF k \in DOMAIN registry THEN <<registry[k]>> ELSE <<>>

PersistedEntry(results, k) ==
    IF k \in DOMAIN results
    THEN <<results[k].metrics, results[k].timestamp>> ELSE <<>>

FailedRunStep ==
    (ret'.op = "train_route" /\ ret'.metrics._is_fallback) =>
        /\ RegistryEntry(models', ret'.algorithm_name)
              = RegistryEntry(models, ret'.algorithm_name)
        /\ PersistedEntry(training_results', ret'.algorithm_name)
              = PersistedEntry(training_results, ret'.algorithm_name)

FailedRunLeavesNoTrace == [][FailedRunStep]_vars

====
